---- MODULE Spec2Model ----
(***************************************************************************)
(* A model of preft's persistence core: the relational store (db.rs), its  *)
(* backup and restore engine, the versioned migration engine and the      *)
(* category schema-diff migration (db/migrations.rs), and the start-up     *)
(* sequence of the application (app.rs).                                   *)
(*                                                                         *)
(* Every store operation runs to completion on the calling thread, so      *)
(* each action is one whole handler.  A handler that opens a transaction   *)
(* is computed step by step on a working copy of the tables; the committed *)
(* tables are replaced only by the handler's commit.                       *)
(***************************************************************************)
EXTENDS Integers, Sequences, FiniteSets, TLC

(***************************************************************************)
(* Bounds of the model.                                                    *)
(***************************************************************************)
MaxCats == 2
MaxFlows == 2
MaxPaths == 1
MaxLayers == 2
MaxStatements == 2
MaxEntries == 12

CatIds == 1..MaxCats
FlowIds == 1..MaxFlows
Paths == 1..MaxPaths

Passwords == {"pw1", "pw2"}
Salts == {"saltA", "saltB"}

(***************************************************************************)
(* Values stored in the tables.                                            *)
(***************************************************************************)

\* models.rs FieldType, with the variants migrations.rs matches on. A Select
\* carries its options, and two Selects are equal when their options are.
FieldTypes ==
    {"Text", "Integer", "Float", "Currency", "Boolean", "Date", "Select", "Number",
     "Select(a)", "Select(a,b)"}

FieldNames == {"fa", "fb"}

\* A CategoryField: the two members the migrations read, and `required`.
Field(n, t) == [name |-> n, field_type |-> t, required |-> FALSE]

\* The `fields` column: the JSON text of a Vec<CategoryField>, or text that
\* serde_json cannot parse.
FieldsJson(list) == [ok |-> TRUE, list |-> list]
BadFields == [ok |-> FALSE, list |-> <<>>]

\* A row of the categories table; a table is a set of rows with distinct ids.
CategoryRow(id, name, flow_type, fields) ==
    [id |-> id, name |-> name, flow_type |-> flow_type, fields |-> fields]

\* The `custom_fields` column: the JSON text of a map (a set of <<name, value>>
\* pairs with distinct names), or unparsable text.
CustomJson(map) == [ok |-> TRUE, map |-> map]
BadCustom == [ok |-> FALSE, map |-> {}]

\* A row of the flows table.
FlowRow(id, category_id, custom_fields) ==
    [id |-> id, category_id |-> category_id, custom_fields |-> custom_fields]

\* The ids of a table's rows, and the row with a given id.
Ids(table) == {r.id : r \in table}
RowOf(table, id) == CHOOSE r \in table : r.id = id

\* INSERT OR REPLACE of a row, and DELETE ... WHERE id = ?.
Upsert(table, row) == {r \in table : r.id # row.id} \cup {row}
DeleteId(table, id) == {r \in table : r.id # id}

\* The user_settings table: empty, or holding row 1. The payload is a JSON
\* text wrapped in zero or more layers of encryption, outermost first.
\* The backup history that the settings carry is kept apart from the rest of
\* the text; it is empty unless the application recorded a backup.
NoRow == [tag |-> "no_row", layers |-> <<>>, json |-> "", backup_history |-> <<>>]
SettingsRow(layers, json) ==
    [tag |-> "row", layers |-> layers, json |-> json, backup_history |-> <<>>]

\* Which tables a database file has: all of them ("full"), all but
\* user_settings ("no_settings"), or none ("empty", a zero-length file);
\* "corrupt" is a store file on which every statement fails (not a database).
Schemas == {"full", "no_settings", "empty", "corrupt"}

\* The tables of a store as one value.
Tables(sch, c, f, s, l) ==
    [schema |-> sch, categories |-> c, flows |-> f, user_settings |-> s, ledger |-> l]
EmptyDb == Tables("empty", {}, {}, NoRow, <<>>)
CorruptStore == Tables("corrupt", {}, {}, NoRow, <<>>)

\* UserSettings values; "default" is UserSettings::new().
SettingsValues == {"s1", "s2"}
DefaultSettings == "default"

\* The one built-in migration.
MigrationName == "convert_number_to_float"
MigrationVersion == 1
MigrationRecord == <<MigrationName, MigrationVersion>>

(***************************************************************************)
(* Key derivation and cipher (encryption.rs).                              *)
(***************************************************************************)

\* The digest that DatabaseEncryption::new and hash_password both compute:
\* SHA-256 over the password bytes followed by the salt bytes, re-hashed in
\* 10000 rounds. It is taken as collision-free on the concatenated text.
Digest(password, salt) == <<"sha256", password \o salt>>

\* DatabaseEncryption::new: the 32 digest bytes are the AES-256-GCM key.
DeriveKey(password, salt) == Digest(password, salt)

\* A hash_password that leaves the salt out of the digest.
HashPasswordUnsalted(password, salt) == <<"base64", Digest(password, "")>>

\* DatabaseEncryption::hash_password: the base64 text of the digest bytes.
HashPassword(password, salt) == <<"base64", Digest(password, salt)>>

\* The bytes a base64 text stands for (general_purpose::STANDARD).
Base64Decode(text) == text[2]

\* Database.encryption == None.
NoCipher == <<>>

\* DatabaseEncryption::encrypt: one more layer under the cipher's key.
Encrypt(key, payload) == [payload EXCEPT !.layers = <<key>> \o payload.layers]

\* A decrypt that accepts every blob that is not plain text.
CanDecryptAnyKey(key, payload) == payload.layers # <<>>

\* DatabaseEncryption::decrypt: fails on plain text (not base64 of nonce and
\* ciphertext), on a blob shorter than the nonce, and on a blob whose
\* authentication tag does not verify under the key: one made under another
\* key, or one altered after it was made.
CanDecrypt(key, payload) == payload.layers # <<>> /\ Head(payload.layers) = key
Decrypt(key, payload) == [payload EXCEPT !.layers = Tail(payload.layers)]

\* EncryptionConfig; an Option is NoneValue or Some(v).
NoneValue == <<>>
Some(v) == <<v>>
DefaultConfig ==
    [enabled |-> TRUE, password_hash |-> NoneValue, salt |-> NoneValue,
     database_encrypted |-> FALSE]

IsEncryptionReady(config) ==
    config.enabled /\ config.password_hash # NoneValue /\ config.salt # NoneValue

ConfigVerifyPassword(config, password) ==
    /\ config.password_hash # NoneValue
    /\ config.salt # NoneValue
    /\ Some(HashPassword(password, config.salt[1])) = config.password_hash

ConfigSetPassword(config, password, salt) ==
    [enabled |-> TRUE, password_hash |-> Some(HashPassword(password, salt)),
     salt |-> Some(salt), database_encrypted |-> TRUE]

\* EncryptionConfig::load on the vault. What the vault holds is a saved
\* config, or [entry |-> e]: "no_entry" when nothing was saved, "unreadable"
\* when get_password returns another error, "unparsable" when the entry is
\* not the JSON of a config, "no_vault" when Entry::new fails. The two `?`
\* return the error of Entry::new and of serde_json::from_str.
Load(vault) ==
    IF "entry" \notin DOMAIN vault THEN [ok |-> TRUE, config |-> vault]
    ELSE IF vault.entry \in {"no_entry", "unreadable"} THEN [ok |-> TRUE, config |-> DefaultConfig]
    ELSE [ok |-> FALSE, config |-> DefaultConfig]

(***************************************************************************)
(* Category schema diff (db/migrations.rs).                                *)
(***************************************************************************)

\* A row that the typed readers reject: an unknown flow type or a `fields`
\* text that does not parse.
WellFormed(row) == row.flow_type \in {"Income", "Expense"} /\ row.fields.ok

\* The HashMap built from a field list: the names, and the type a name maps
\* to (a later entry of the same name replaces an earlier one).
FieldNamesOf(list) == {list[i].name : i \in 1..Len(list)}
FieldTypeOf(list, n) ==
    LET last_i == CHOOSE i \in 1..Len(list) :
                    /\ list[i].name = n
                    /\ \A j \in (i + 1)..Len(list) : list[j].name # n
    IN list[last_i].field_type

\* A has_schema_changes without the loop over the type changes.
HasSchemaChangesByName(old_list, new_list) ==
    \/ \E n \in FieldNamesOf(old_list) : n \notin FieldNamesOf(new_list)
    \/ \E n \in FieldNamesOf(new_list) : n \notin FieldNamesOf(old_list)

\* has_schema_changes: a field removed, a field added, or a type changed.
HasSchemaChanges(old_list, new_list) ==
    \/ \E n \in FieldNamesOf(old_list) : n \notin FieldNamesOf(new_list)
    \/ \E n \in FieldNamesOf(new_list) : n \notin FieldNamesOf(old_list)
    \/ \E n \in FieldNamesOf(new_list) :
          /\ n \in FieldNamesOf(old_list)
          /\ FieldTypeOf(old_list, n) # FieldTypeOf(new_list, n)

\* What the parsers of the coercion accept, on the values of the model.
\* A loop that skips no value.
IsBlankNever(v) == FALSE
IsBlank(v) == v \in {"", " "}
ParsesAsInt(v) == v \in {"42", "4", "1", "0", "1000"}
ParsesAsFloat(v) == ParsesAsInt(v) \/ v \in {"4.5"}
\* An Integer arm that stores the float text it parsed.
TruncateOmitted(v) == v
TruncateToInt(v) == IF v = "4.5" THEN "4" ELSE v
WidenToFloat(v) == v
StripCurrency(v) == IF v = "$1,000" THEN "1000" ELSE v
\* A match on the value as it is stored, without to_lowercase.
LowercaseOmitted(v) == v
Lowercase(v) ==
    IF v = "Yes" THEN "yes" ELSE IF v = "TRUE" THEN "true" ELSE IF v = "No" THEN "no" ELSE v
IsIsoDate(v) == v \in {"2024-01-02"}
IsUsDate(v) == v \in {"01/02/2024"}
UsToIso(v) == "2024-01-02"

\* The match on the new field type: the value after coercion, whether the
\* field is dropped, and whether the flow counts as modified.
Coerced(v, drop, modified) == [value |-> v, drop |-> drop, modified |-> modified]
Coerce(t, v) ==
    CASE t = "Integer" ->
           IF ParsesAsInt(v) THEN Coerced(v, FALSE, FALSE)
           ELSE IF ParsesAsFloat(v) THEN Coerced(TruncateToInt(v), FALSE, TRUE)
           ELSE Coerced(v, TRUE, TRUE)
      [] t = "Float" ->
           IF ParsesAsFloat(v) THEN Coerced(v, FALSE, FALSE)
           ELSE IF ParsesAsInt(v) THEN Coerced(WidenToFloat(v), FALSE, TRUE)
           ELSE Coerced(v, TRUE, TRUE)
      [] t = "Currency" ->
           IF ParsesAsFloat(StripCurrency(v)) THEN Coerced(StripCurrency(v), FALSE, TRUE)
           ELSE Coerced(v, TRUE, TRUE)
      [] t = "Boolean" ->
           IF Lowercase(v) \in {"true", "1", "yes", "y"} THEN Coerced("true", FALSE, TRUE)
           ELSE IF Lowercase(v) \in {"false", "0", "no", "n"} THEN Coerced("false", FALSE, TRUE)
           ELSE Coerced(v, TRUE, TRUE)
      [] t = "Date" ->
           IF IsIsoDate(v) THEN Coerced(v, FALSE, FALSE)
           ELSE IF IsUsDate(v) THEN Coerced(UsToIso(v), FALSE, TRUE)
           ELSE Coerced(v, TRUE, TRUE)
      [] OTHER -> Coerced(v, FALSE, FALSE)

\* One flow's custom fields under the new schema: fields the schema no longer
\* has are removed, blank values are skipped, the others are coerced.
MigrateCustomFields(map, new_list) ==
    LET kept == {p \in map : p[1] \in FieldNamesOf(new_list)}
        after(p) == IF IsBlank(p[2]) THEN Coerced(p[2], FALSE, FALSE)
                    ELSE Coerce(FieldTypeOf(new_list, p[1]), p[2])
    IN [map |-> {<<p[1], after(p).value>> : p \in {q \in kept : ~after(q).drop}},
        modified |-> kept # map \/ \E p \in kept : after(p).modified]

\* A loop over the flows of every category: the SELECT without its WHERE.
RECURSIVE MigrateLoopAllFlows(_, _, _, _)
MigrateLoopAllFlows(table, ids, category_id, new_list) ==
    IF ids = <<>> THEN [ok |-> TRUE, flows |-> table]
    ELSE LET row == RowOf(table, Head(ids)) IN
         IF ~row.custom_fields.ok THEN [ok |-> FALSE, flows |-> table]
         ELSE LET m == MigrateCustomFields(row.custom_fields.map, new_list)
                  updated == IF m.modified
                             THEN Upsert(table, [row EXCEPT !.custom_fields = CustomJson(m.map)])
                             ELSE table
              IN MigrateLoopAllFlows(updated, Tail(ids), category_id, new_list)

\* The loop of migrate_flows_to_new_category over the category's flows, in
\* the order of the ids in `ids`. A flow whose custom_fields text does not
\* parse ends the loop with an error; the rows updated before it stay updated
\* in the working copy.
RECURSIVE MigrateLoop(_, _, _, _)
MigrateLoop(table, ids, category_id, new_list) ==
    IF ids = <<>> THEN [ok |-> TRUE, flows |-> table]
    ELSE LET id == Head(ids) IN
         IF id \notin Ids(table) \/ RowOf(table, id).category_id # category_id
         THEN MigrateLoop(table, Tail(ids), category_id, new_list)
         ELSE LET row == RowOf(table, id) IN
              IF ~row.custom_fields.ok THEN [ok |-> FALSE, flows |-> table]
              ELSE LET m == MigrateCustomFields(row.custom_fields.map, new_list)
                       updated == IF m.modified
                                  THEN Upsert(table, FlowRow(id, category_id, CustomJson(m.map)))
                                  ELSE table
                   IN MigrateLoop(updated, Tail(ids), category_id, new_list)

\* The ids of a table in the order a full scan returns them (ascending).
RECURSIVE Ascending(_)
Ascending(ids) ==
    IF ids = {} THEN <<>>
    ELSE LET m == CHOOSE x \in ids : \A y \in ids : x <= y
         IN <<m>> \o Ascending(ids \ {m})

\* migrate_flows_to_new_category.
MigrateFlowsToNewCategory(table, old_list, category_id, new_list) ==
    IF ~HasSchemaChanges(old_list, new_list) THEN [ok |-> TRUE, flows |-> table]
    ELSE MigrateLoop(table, Ascending(Ids(table)), category_id, new_list)

(***************************************************************************)
(* Versioned data migrations (db/migrations.rs).                           *)
(***************************************************************************)

\* The field list with every Number field retyped as Float.
NumberToFloat(list) ==
    [i \in 1..Len(list) |->
        IF list[i].field_type = "Number" THEN [list[i] EXCEPT !.field_type = "Float"]
        ELSE list[i]]

HasNumberField(list) == \E i \in 1..Len(list) : list[i].field_type = "Number"

\* The loop of convert_number_to_float over the categories. A malformed row
\* ends it with an error; rows converted before it stay converted in the
\* working copy.
RECURSIVE ConvertLoop(_, _)
ConvertLoop(table, ids) ==
    IF ids = <<>> THEN [ok |-> TRUE, categories |-> table]
    ELSE LET row == RowOf(table, Head(ids)) IN
         IF ~WellFormed(row) THEN [ok |-> FALSE, categories |-> table]
         ELSE LET updated ==
                    IF HasNumberField(row.fields.list)
                    THEN Upsert(table, [row EXCEPT !.fields = FieldsJson(NumberToFloat(row.fields.list))])
                    ELSE table
              IN ConvertLoop(updated, Tail(ids))

ConvertNumberToFloat(table) == ConvertLoop(table, Ascending(Ids(table)))

\* validate_migration: an error on an unparsable `fields` text, false when a
\* Number field is left.
ValidateMigration(table) ==
    [ok |-> \A r \in table : r.fields.ok,
     valid |-> ~\E r \in table : r.fields.ok /\ HasNumberField(r.fields.list)]

\* A ledger check that never finds the record.
MigrationAppliedNever(l) == FALSE

\* "SELECT COUNT(*) > 0 FROM migrations WHERE name = ? AND version = ?".
MigrationApplied(l) == \E i \in 1..Len(l) : l[i] = MigrationRecord

\* An end of run_migrations without a transaction: what the body wrote before
\* it failed stays written.
MigrationOutcomeNoRollback(before, body, validation) ==
    IF body.ok /\ validation.ok /\ validation.valid
    THEN [ok |-> TRUE, categories |-> body.categories,
          ledger |-> Append(before.ledger, MigrationRecord)]
    ELSE [ok |-> FALSE, categories |-> body.categories, ledger |-> before.ledger]

\* The transaction of run_migrations ends: the working copy is committed when
\* body and validator succeeded, and dropped (rolled back) otherwise.
MigrationOutcome(before, body, validation) ==
    IF body.ok /\ validation.ok /\ validation.valid
    THEN [ok |-> TRUE, categories |-> body.categories,
          ledger |-> Append(before.ledger, MigrationRecord)]
    ELSE [ok |-> FALSE, categories |-> before.categories, ledger |-> before.ledger]

\* run_migrations on the tables `before`.
RunMigrations(before) ==
    IF MigrationApplied(before.ledger)
    THEN [ok |-> TRUE, categories |-> before.categories, ledger |-> before.ledger]
    ELSE LET body == ConvertNumberToFloat(before.categories)
         IN MigrationOutcome(before, body, ValidateMigration(body.categories))

(***************************************************************************)
(* Relational store (db.rs): the handlers as functions of the tables.      *)
(***************************************************************************)

\* The outcome of a handler: whether it returned Ok, the step it failed at
\* ("" when it did not fail) and the tables it leaves behind.
Outcome(ok, step, tables) == [ok |-> ok, step |-> step, tables |-> tables]

\* initialize: CREATE TABLE IF NOT EXISTS for the three tables.
Initialize(t) == [t EXCEPT !.schema = "full"]

\* encrypt_data and decrypt_data: the identity without a cipher.
EncryptData(cipher, payload) ==
    IF cipher # NoCipher THEN Encrypt(cipher, payload) ELSE payload
DecryptDataOk(cipher, payload) == cipher = NoCipher \/ CanDecrypt(cipher, payload)
DecryptData(cipher, payload) ==
    IF cipher # NoCipher THEN Decrypt(cipher, payload) ELSE payload

\* save_user_settings: INSERT OR REPLACE of row 1.
SaveUserSettings(t, cipher, settings) ==
    IF t.schema # "full" THEN Outcome(FALSE, "execute", t)
    ELSE Outcome(TRUE, "", [t EXCEPT !.user_settings = EncryptData(cipher, SettingsRow(<<>>, settings))])

\* load_user_settings: an error when the query or the decryption fails, the
\* default settings when the row is missing or the text does not deserialize.
LoadUserSettings(t, cipher) ==
    IF t.schema # "full" THEN [ok |-> FALSE, settings |-> DefaultSettings]
    ELSE IF t.user_settings = NoRow THEN [ok |-> TRUE, settings |-> DefaultSettings]
    ELSE IF ~DecryptDataOk(cipher, t.user_settings) THEN [ok |-> FALSE, settings |-> DefaultSettings]
    ELSE LET text == DecryptData(cipher, t.user_settings) IN
         IF text.layers = <<>>
         THEN [ok |-> TRUE, settings |-> text.json]
         ELSE [ok |-> TRUE, settings |-> DefaultSettings]

\* The backup history of the settings that the application holds after
\* load_user_settings().unwrap_or_else(UserSettings::new): that of the stored
\* settings, or none when the load failed or fell back to the default.
LoadedHistory(t, cipher) ==
    IF /\ LoadUserSettings(t, cipher).ok
       /\ t.user_settings # NoRow
       /\ DecryptData(cipher, t.user_settings).layers = <<>>
    THEN DecryptData(cipher, t.user_settings).backup_history
    ELSE <<>>

\* The length that add_backup_entry keeps the history at.
HistoryLimit == 10

\* An add_backup_entry that evicts only above the limit.
AddBackupEntryLate(history, entry) ==
    IF Len(history) > HistoryLimit THEN Append(Tail(history), entry)
    ELSE Append(history, entry)

\* UserSettings::add_backup_entry.
AddBackupEntry(history, entry) ==
    IF Len(history) >= HistoryLimit THEN Append(Tail(history), entry)
    ELSE Append(history, entry)

\* load_categories: the Category of every stored row, or an error when the
\* query fails or one row has an unknown flow type or unparsable fields.
LoadCategories(t) ==
    IF t.schema \in {"empty", "corrupt"} \/ \E r \in t.categories : ~WellFormed(r)
    THEN [ok |-> FALSE, rows |-> {}]
    ELSE [ok |-> TRUE,
          rows |-> {[id |-> r.id, name |-> r.name, flow_type |-> r.flow_type,
                     fields |-> r.fields.list] : r \in t.categories}]

\* A load_flows that leaves out the rows it cannot parse.
LoadFlowsLenient(t) ==
    IF t.schema \in {"empty", "corrupt"} THEN [ok |-> FALSE, rows |-> {}]
    ELSE [ok |-> TRUE,
          rows |-> {[id |-> r.id, category_id |-> r.category_id,
                     custom_fields |-> r.custom_fields.map] :
                       r \in {x \in t.flows : x.custom_fields.ok}}]

\* load_flows: the Flow of every stored row, or an error when the query
\* fails or one row has a column that does not parse.
LoadFlows(t) ==
    IF t.schema \in {"empty", "corrupt"} \/ \E r \in t.flows : ~r.custom_fields.ok
    THEN [ok |-> FALSE, rows |-> {}]
    ELSE [ok |-> TRUE,
          rows |-> {[id |-> r.id, category_id |-> r.category_id,
                     custom_fields |-> r.custom_fields.map] : r \in t.flows}]

\* The FOREIGN KEY clause of the flows table, when the connection enforces it.
ForeignKeyHolds(fk, cats, row) == ~fk \/ row.category_id \in Ids(cats)

\* A save_flow with INSERT OR IGNORE: a stored row of the same id stays.
SaveFlowOrIgnore(t, fk, row) ==
    IF t.schema = "empty" THEN Outcome(FALSE, "execute", t)
    ELSE IF ~ForeignKeyHolds(fk, t.categories, row) THEN Outcome(FALSE, "execute", t)
    ELSE IF row.id \in Ids(t.flows) THEN Outcome(TRUE, "", t)
    ELSE Outcome(TRUE, "", [t EXCEPT !.flows = Upsert(t.flows, row)])

\* save_flow: INSERT OR REPLACE of the flow's row.
SaveFlow(t, fk, row) ==
    IF t.schema = "empty" THEN Outcome(FALSE, "execute", t)
    ELSE IF ~ForeignKeyHolds(fk, t.categories, row) THEN Outcome(FALSE, "execute", t)
    ELSE Outcome(TRUE, "", [t EXCEPT !.flows = Upsert(t.flows, row)])

\* delete_flow.
DeleteFlow(t, id) ==
    IF t.schema = "empty" THEN Outcome(FALSE, "execute", t)
    ELSE Outcome(TRUE, "", [t EXCEPT !.flows = DeleteId(t.flows, id)])

\* delete_category: the DELETE fails when enforcement is on and a flow still
\* references the row.
DeleteCategory(t, fk, id) ==
    IF t.schema = "empty" THEN Outcome(FALSE, "execute", t)
    ELSE IF fk /\ id \in Ids(t.categories) /\ \E f \in t.flows : f.category_id = id
    THEN Outcome(FALSE, "execute", t)
    ELSE Outcome(TRUE, "", [t EXCEPT !.categories = DeleteId(t.categories, id)])

\* delete_flows_by_category.
DeleteFlowsByCategory(t, id) ==
    IF t.schema = "empty" THEN Outcome(FALSE, "execute", t)
    ELSE Outcome(TRUE, "", [t EXCEPT !.flows = {f \in t.flows : f.category_id # id}])

\* PreftApp::delete_category: the category row first, and the flows only when
\* that succeeded.
AppDeleteCategory(t, fk, id) ==
    LET first == DeleteCategory(t, fk, id) IN
    IF ~first.ok THEN first
    ELSE Outcome(TRUE, "", DeleteFlowsByCategory(first.tables, id).tables)

\* An end of save_category without a transaction: the statements executed
\* before the failure stay executed.
SaveCategoryOutcomeNoRollback(before, work, failed_step) ==
    IF failed_step = "" THEN Outcome(TRUE, "", work)
    ELSE Outcome(FALSE, failed_step, work)

\* The transaction of save_category ends: commit of the working copy, or its
\* drop, which rolls every statement of it back.
SaveCategoryOutcome(before, work, failed_step) ==
    IF failed_step = "" THEN Outcome(TRUE, "", work)
    ELSE Outcome(FALSE, failed_step, before)

SaveCategoryUpsert(t, row) ==
    IF t.schema = "empty" THEN Outcome(FALSE, "get_category", t)
    ELSE IF row.id \notin Ids(t.categories)
    THEN Outcome(TRUE, "", [t EXCEPT !.categories = Upsert(t.categories, row)])
    ELSE LET old == RowOf(t.categories, row.id) IN
         IF ~WellFormed(old) THEN Outcome(FALSE, "get_category", t)
         ELSE LET replaced == [t EXCEPT !.categories = Upsert(t.categories, row)]
                  migrated == MigrateFlowsToNewCategory(
                                  t.flows, old.fields.list, row.id, row.fields.list)
                  work == [replaced EXCEPT !.flows = migrated.flows]
              IN SaveCategoryOutcome(t, work, IF migrated.ok THEN "" ELSE "migrate_flows")

\* save_category: inside one transaction, read the stored row (query_row
\* ends with an error when there is none), replace it, and migrate the
\* category's flows when the field schema changed.
SaveCategory(t, row) ==
    IF t.schema = "empty" THEN Outcome(FALSE, "get_category", t)
    ELSE IF row.id \notin Ids(t.categories) THEN Outcome(FALSE, "get_category", t)
    ELSE LET old == RowOf(t.categories, row.id) IN
         IF ~WellFormed(old) THEN Outcome(FALSE, "get_category", t)
         ELSE LET replaced == [t EXCEPT !.categories = Upsert(t.categories, row)]
                  migrated == MigrateFlowsToNewCategory(
                                  t.flows, old.fields.list, row.id, row.fields.list)
                  work == [replaced EXCEPT !.flows = migrated.flows]
              IN SaveCategoryOutcome(t, work, IF migrated.ok THEN "" ELSE "migrate_flows")

(***************************************************************************)
(* Backup and restore engine (db.rs).                                      *)
(***************************************************************************)

\* A path of the file system: no file, a database file with its tables, or
\* a file that is not a database. `made_by` and `of` record where a file
\* came from: the operation that wrote it and the live tables and cipher at
\* that moment.
File(kind, tables, made_by, of, cipher) ==
    [kind |-> kind, tables |-> tables, made_by |-> made_by, of |-> of, cipher |-> cipher]
Absent == File("absent", EmptyDb, "", EmptyDb, NoCipher)
Garbage == File("garbage", EmptyDb, "external", EmptyDb, NoCipher)
External(tables) == File("db", tables, "external", EmptyDb, NoCipher)
NoFiles == [p \in Paths |-> Absent]

\* Connection::open on a path: an absent file is created with zero length.
Opened(file) == IF file.kind = "absent" THEN EmptyDb ELSE file.tables

\* backup_encrypted: a page-level clone of the live store into the target.
BackupEncrypted(t, cipher, target) ==
    IF target.kind = "garbage" THEN [ok |-> FALSE, file |-> target]
    ELSE [ok |-> TRUE, file |-> File("db", t, "backup_encrypted", t, cipher)]

\* The INSERT statements of copy_data_unencrypted_transaction for one table:
\* the rows in scan order; a primary-key conflict with a row the target
\* already holds, or a violated foreign key, ends the loop with an error.
RECURSIVE CopyRows(_, _, _, _)
CopyRows(dest, rows, ids, allowed) ==
    IF ids = <<>> THEN [ok |-> TRUE, rows |-> dest]
    ELSE LET row == RowOf(rows, Head(ids)) IN
         IF row.id \in Ids(dest) \/ ~allowed[row] THEN [ok |-> FALSE, rows |-> dest]
         ELSE CopyRows(dest \cup {row}, rows, Tail(ids), allowed)

\* The transaction on the backup connection ends: commit, or the drop that
\* rolls it back and leaves the target as it was opened (a zero-length file
\* when there was none).
BackupUnencryptedOutcome(target, work, ok, t, cipher) ==
    IF ok THEN [ok |-> TRUE, file |-> File("db", work, "backup_unencrypted", t, cipher)]
    ELSE IF target.kind = "absent"
    THEN [ok |-> FALSE, file |-> File("db", EmptyDb, "failed_backup", EmptyDb, NoCipher)]
    ELSE [ok |-> FALSE, file |-> target]

\* backup_unencrypted: open the target, create the tables that are missing,
\* copy categories, flows and the decrypted settings row, commit.
BackupUnencrypted(t, cipher, fk, target) ==
    IF target.kind = "garbage" THEN [ok |-> FALSE, file |-> target]
    ELSE LET opened == Opened(target)
             created == Initialize(opened)
             cats == CopyRows(created.categories, t.categories,
                              Ascending(Ids(t.categories)), [r \in t.categories |-> TRUE])
             fls == CopyRows(created.flows, t.flows, Ascending(Ids(t.flows)),
                             [r \in t.flows |-> ForeignKeyHolds(fk, cats.rows, r)])
             settings_ok == /\ t.schema = "full"
                            /\ t.user_settings # NoRow => DecryptDataOk(cipher, t.user_settings)
             settings == IF t.user_settings = NoRow THEN created.user_settings
                         ELSE DecryptData(cipher, t.user_settings)
             work == Tables("full", cats.rows, fls.rows, settings, created.ledger)
         IN BackupUnencryptedOutcome(target, work,
                t.schema # "empty" /\ cats.ok /\ fls.ok /\ settings_ok, t, cipher)

\* backup_to_file.
BackupToFileUngated(t, cipher, config, fk, target, encrypted_backup) ==
    IF encrypted_backup THEN BackupEncrypted(t, cipher, target)
    ELSE BackupUnencrypted(t, cipher, fk, target)

BackupToFile(t, cipher, config, fk, target, encrypted_backup) ==
    IF encrypted_backup /\ ~IsEncryptionReady(config) THEN [ok |-> FALSE, file |-> target]
    ELSE IF encrypted_backup THEN BackupEncrypted(t, cipher, target)
    ELSE BackupUnencrypted(t, cipher, fk, target)

\* detect_encrypted_backup: "encrypted" means that counting the rows of
\* user_settings failed.
DetectEncryptedBackup(file) == ~(file.kind = "db" /\ file.tables.schema = "full")

\* restore_encrypted: verify the password against the live config, then a
\* page-level clone of the source into the live connection.
RestoreEncryptedUnverified(t, config, file, password) ==
    IF file.kind # "db" THEN Outcome(FALSE, "backup", t)
    ELSE Outcome(TRUE, "", file.tables)

RestoreEncrypted(t, config, file, password) ==
    IF ~ConfigVerifyPassword(config, password) THEN Outcome(FALSE, "verify_password", t)
    ELSE IF file.kind # "db" THEN Outcome(FALSE, "backup", t)
    ELSE Outcome(TRUE, "", file.tables)

\* The steps of restore_unencrypted at which the environment can fail a
\* statement (an I/O error, a locked or full disk); "none" injects nothing.
CollectSteps == <<"collect_categories", "collect_flows", "collect_settings">>
TransactionSteps == <<"begin", "clear_flows", "clear_categories", "clear_settings",
                      "insert_categories", "insert_flows", "insert_settings", "commit">>
Range(seq) == {seq[i] : i \in 1..Len(seq)}
RestoreFaults == {"none"} \cup Range(CollectSteps) \cup Range(TransactionSteps)

\* collect_*_from_backup: every row of the source is read into memory; the
\* settings payload is passed through encrypt_data.
Collected(ok, step, c, f, s) ==
    [ok |-> ok, step |-> step, categories |-> c, flows |-> f, user_settings |-> s]
CollectFromBackup(file, cipher, fault) ==
    LET src == file.tables
        failed(step) == Collected(FALSE, step, {}, {}, NoRow)
    IN IF file.kind # "db" \/ src.schema = "empty" \/ fault = "collect_categories"
       THEN failed("collect_categories")
       ELSE IF fault = "collect_flows" THEN failed("collect_flows")
       ELSE IF src.schema # "full" \/ fault = "collect_settings" THEN failed("collect_settings")
       ELSE Collected(TRUE, "", src.categories, src.flows,
                      IF src.user_settings = NoRow THEN NoRow
                      ELSE EncryptData(cipher, src.user_settings))

\* insert_flows_transaction: the rows in order, up to the first one that
\* violates the foreign key.
RECURSIVE InsertFlows(_, _, _, _, _)
InsertFlows(dest, rows, ids, cats, fk) ==
    IF ids = <<>> THEN [ok |-> TRUE, rows |-> dest]
    ELSE LET row == RowOf(rows, Head(ids)) IN
         IF ~ForeignKeyHolds(fk, cats, row) THEN [ok |-> FALSE, rows |-> dest]
         ELSE InsertFlows(dest \cup {row}, rows, Tail(ids), cats, fk)

\* One statement of the restore transaction on the working copy; a statement
\* that fails leaves the working copy as it found it, except the flow loop,
\* which keeps the rows inserted before the failing one.
RestoreStep(step, work, collected, fk, fault) ==
    LET done(tables) == [ok |-> TRUE, tables |-> tables]
        failed(tables) == [ok |-> FALSE, tables |-> tables]
    IN IF fault = step THEN failed(work)
       ELSE CASE step = "begin" -> done(work)
              [] step = "clear_flows" ->
                   IF work.schema = "empty" THEN failed(work)
                   ELSE done([work EXCEPT !.flows = {}])
              [] step = "clear_categories" -> done([work EXCEPT !.categories = {}])
              [] step = "clear_settings" ->
                   IF work.schema # "full" THEN failed(work)
                   ELSE done([work EXCEPT !.user_settings = NoRow])
              [] step = "insert_categories" ->
                   done([work EXCEPT !.categories = collected.categories])
              [] step = "insert_flows" ->
                   LET ins == InsertFlows({}, collected.flows, Ascending(Ids(collected.flows)),
                                          work.categories, fk)
                   IN [ok |-> ins.ok, tables |-> [work EXCEPT !.flows = ins.rows]]
              [] step = "insert_settings" ->
                   done([work EXCEPT !.user_settings = collected.user_settings])
              [] step = "commit" -> done(work)

\* The statements of the transaction in order, stopping at the first that
\* fails: the working copy and the failed step ("" when none failed).
RECURSIVE RestoreSteps(_, _, _, _, _)
RestoreSteps(steps, work, collected, fk, fault) ==
    IF steps = <<>> THEN [failed |-> "", tables |-> work]
    ELSE LET r == RestoreStep(Head(steps), work, collected, fk, fault) IN
         IF ~r.ok THEN [failed |-> Head(steps), tables |-> r.tables]
         ELSE RestoreSteps(Tail(steps), r.tables, collected, fk, fault)

\* An end of the restore without a transaction: the statements executed
\* before the failure stay executed.
RestoreOutcomeNoRollback(before, work, failed_step) ==
    IF failed_step = "" THEN Outcome(TRUE, "", work)
    ELSE Outcome(FALSE, failed_step, work)

\* The restore transaction ends: commit of the working copy, or its drop on
\* an early return, which rolls every statement of it back.
RestoreOutcome(before, work, failed_step) ==
    IF failed_step = "" THEN Outcome(TRUE, "", work)
    ELSE Outcome(FALSE, failed_step, before)

\* A streaming restore: the live tables are cleared before the source is
\* read, outside any transaction.
RestoreUnencryptedStreaming(t, cipher, fk, file, fault) ==
    LET cleared == [t EXCEPT !.flows = {}, !.categories = {}, !.user_settings = NoRow]
        collected == CollectFromBackup(file, cipher, fault)
    IN IF ~collected.ok THEN Outcome(FALSE, collected.step, cleared)
       ELSE LET run == RestoreSteps(TransactionSteps, cleared, collected, fk, fault)
            IN RestoreOutcome(t, run.tables, run.failed)

\* restore_unencrypted: collect the source, then clear and reload the live
\* tables in one transaction. "PRAGMA foreign_keys" inside the transaction
\* does not change the enforcement.
RestoreUnencrypted(t, cipher, fk, file, fault) ==
    LET collected == CollectFromBackup(file, cipher, fault) IN
    IF ~collected.ok THEN Outcome(FALSE, collected.step, t)
    ELSE LET run == RestoreSteps(TransactionSteps, t, collected, fk, fault)
         IN RestoreOutcome(t, run.tables, run.failed)

\* A PRAGMA foreign_keys that takes effect wherever it is executed.
PragmaInTransaction(in_transaction, enforced, value) == value

\* "PRAGMA foreign_keys = value" on a connection that enforces foreign keys
\* or not: SQLite ignores it while a transaction is open.
Pragma(in_transaction, enforced, value) ==
    IF in_transaction THEN enforced ELSE value

\* Whether the live connection enforces foreign keys when restore_from_file
\* returns. restore_unencrypted executes the OFF as the first statement of
\* its transaction and the ON as the last before the commit; an error in
\* between returns without the ON. No other path executes the pragma.
ForeignKeysAfterRestore(fk, unencrypted, outcome) ==
    IF ~unencrypted \/ outcome.step \in {"exists", "password_required", "begin"} \cup Range(CollectSteps)
    THEN fk
    ELSE IF outcome.ok THEN Pragma(TRUE, Pragma(TRUE, fk, FALSE), TRUE)
    ELSE Pragma(TRUE, fk, FALSE)

\* The file at the path after restore_from_file: Connection::open creates a
\* zero-length file at a path that holds none, and detect_encrypted_backup
\* opens the path once the existence check has passed.
OpenedFile(file) ==
    IF file.kind = "absent" THEN File("db", EmptyDb, "opened", EmptyDb, NoCipher)
    ELSE file
RestoredFile(file) == IF file.kind = "absent" THEN file ELSE OpenedFile(file)

RestoreFromFileUnguarded(t, cipher, config, fk, file, password, force, fault) ==
    IF DetectEncryptedBackup(file) /\ password # ""
    THEN RestoreEncrypted(t, config, file, password)
    ELSE RestoreUnencrypted(t, cipher, fk, file, fault)

\* restore_from_file. `password` is "" for None.
RestoreFromFile(t, cipher, config, fk, file, password, force, fault) ==
    IF file.kind = "absent" THEN Outcome(FALSE, "exists", t)
    ELSE IF DetectEncryptedBackup(file) /\ password = "" /\ ~force
    THEN Outcome(FALSE, "password_required", t)
    ELSE IF DetectEncryptedBackup(file) /\ password # ""
    THEN RestoreEncrypted(t, config, file, password)
    ELSE RestoreUnencrypted(t, cipher, fk, file, fault)

\* restore_from_sql_file after conn.transaction(): the statements of the dump
\* text in order, then tx.commit(). `durable` are the committed tables, `work`
\* the tables as the connection sees them, `open` whether its transaction is
\* open. A COMMIT in the text ends the transaction and the statements after
\* it commit one by one; an error drops the Transaction, which rolls back
\* when a transaction is open; the final commit fails when none is.
RECURSIVE ExecuteDump(_, _, _, _)
ExecuteDump(durable, work, open, statements) ==
    IF statements = <<>>
    THEN IF open THEN Outcome(TRUE, "", work) ELSE Outcome(FALSE, "commit", durable)
    ELSE IF Head(statements) = "COMMIT"
    THEN IF open THEN ExecuteDump(work, work, FALSE, Tail(statements))
         ELSE Outcome(FALSE, "execute", durable)
    ELSE IF Head(statements) = "DELETE FROM flows" /\ work.schema # "empty"
    THEN ExecuteDump(IF open THEN durable ELSE [work EXCEPT !.flows = {}],
                     [work EXCEPT !.flows = {}], open, Tail(statements))
    ELSE Outcome(FALSE, "execute", durable)

\* restore_from_sql_file: the dump file must exist; its text is split at the
\* semicolons and every statement executed on one transaction of the live
\* connection.
RestoreFromSqlFile(t, exists, statements) ==
    IF ~exists THEN Outcome(FALSE, "exists", t)
    ELSE ExecuteDump(t, t, TRUE, statements)

(***************************************************************************)
(* Encryption state of the store handle (db.rs).                           *)
(***************************************************************************)

\* The steps at which the vault can fail a save (keyring set_password
\* returns an error); "none" injects nothing.
VaultFaults == {"none", "save"}

\* initialize_encryption: nothing when the config is ready; otherwise
\* set_password assigns hash and salt under a fresh salt to the config in
\* memory and then saves it to the vault, and after that the cipher is
\* built, tested and stored in the handle.
InitializeEncryption(config, cipher, vault, password, salt, fault) ==
    IF IsEncryptionReady(config)
    THEN [ok |-> TRUE, step |-> "", config |-> config, cipher |-> cipher, vault |-> vault]
    ELSE IF fault = "save"
    THEN [ok |-> FALSE, step |-> "save", config |-> ConfigSetPassword(config, password, salt),
          cipher |-> cipher, vault |-> vault]
    ELSE [ok |-> TRUE, step |-> "", config |-> ConfigSetPassword(config, password, salt),
          cipher |-> DeriveKey(password, salt),
          vault |-> ConfigSetPassword(config, password, salt)]

\* set_encryption_state with a password and a salt, or disabling.
SetEncryptionState(enabled, password, salt) ==
    IF enabled THEN DeriveKey(password, salt) ELSE NoCipher

(***************************************************************************)
(* Start-up (db.rs Database::new, new_minimal; app.rs PreftApp::new).      *)
(***************************************************************************)

\* get_default_categories, reduced to two of its rows: salary and taxes_paid,
\* whose tax_year field is declared with FieldType::Number.
DefaultCategories ==
    << CategoryRow(1, "Salary", "Income", FieldsJson(<<Field("fa", "Text")>>)),
       CategoryRow(2, "Taxes Paid", "Expense", FieldsJson(<<Field("fb", "Number")>>)) >>

\* The loop of Database::new over the default categories: each is stored
\* through save_category, and the first error ends the open. (A one-element
\* set binds the outcome of a call that is read several times.)
RECURSIVE SeedDefaults(_, _)
SeedDefaults(t, rows) ==
    IF rows = <<>> THEN Outcome(TRUE, "", t)
    ELSE CHOOSE o \in
           { IF ~saved.ok THEN Outcome(FALSE, "seed_categories", saved.tables)
             ELSE SeedDefaults(saved.tables, Tail(rows))
             : saved \in {SaveCategory(t, Head(rows))} } : TRUE

\* Database::new after run_migrations has returned Ok, on the tables it
\* left: seed the default categories when there are none (each through
\* save_category, which finds no stored row to update), then seed the
\* settings row when there is none.
SeedStore(after) ==
    CHOOSE o \in
      { IF ~seeded.ok THEN seeded
        ELSE IF seeded.tables.user_settings = NoRow
        THEN SaveUserSettings(seeded.tables, NoCipher, DefaultSettings)
        ELSE Outcome(TRUE, "", seeded.tables)
        : seeded \in { IF after.categories = {}
                       THEN SeedDefaults(after, DefaultCategories)
                       ELSE Outcome(TRUE, "", after) } } : TRUE

\* Database::new on the store file: create the tables, run the migrations,
\* seed. (The one-element set binds the result of run_migrations, which is
\* read several times.)
DatabaseNew(t) ==
    IF t.schema = "corrupt" THEN Outcome(FALSE, "initialize", t)
    ELSE CHOOSE o \in
           { IF ~migrated.ok
             THEN Outcome(FALSE, "run_migrations",
                          [Initialize(t) EXCEPT !.categories = migrated.categories,
                                                !.ledger = migrated.ledger])
             ELSE SeedStore([Initialize(t) EXCEPT !.categories = migrated.categories,
                                                  !.ledger = migrated.ledger])
             : migrated \in {RunMigrations(Initialize(t))} } : TRUE

\* Database::new_minimal: the same file, tables created, nothing else.
DatabaseNewMinimal(t) ==
    IF t.schema = "corrupt" THEN Outcome(FALSE, "initialize", t)
    ELSE Outcome(TRUE, "", Initialize(t))

\* PreftApp::new: the full open, the minimal open when that failed, and
\* when that failed too a handle on a new in-memory database, on which no
\* statement has run.
OpenStore(t) ==
    CHOOSE o \in
      { IF full.ok THEN [serving |-> "full", step |-> "", tables |-> full.tables]
        ELSE IF DatabaseNewMinimal(full.tables).ok
        THEN [serving |-> "minimal", step |-> full.step,
              tables |-> DatabaseNewMinimal(full.tables).tables]
        ELSE [serving |-> "memory", step |-> full.step, tables |-> EmptyDb]
        : full \in {DatabaseNew(t)} } : TRUE

(***************************************************************************)
(* State.                                                                  *)
(***************************************************************************)
VARIABLES
    live,               \* the tables behind the store handle: the store file,
                        \* or the in-memory database of a failed start-up
    foreign_keys,       \* whether connections enforce FOREIGN KEY clauses
    encryption,         \* Database.encryption: NoCipher or a key
    encryption_config,  \* Database.encryption_config
    app_config,         \* PreftApp.encryption_config
    keyring,            \* the config that EncryptionConfig::load reads from the
                        \* credential vault (the default when there is no entry)
    files,              \* the backup files: path -> file
    serving,            \* "none" before start-up, then the open that succeeded
    app,                \* PreftApp: backup_history of its user_settings,
                        \* backup_in_progress, backup_status, the handler that
                        \* is in progress, and the clock of the timestamps
    last                \* the last operation and its outcome

vars == <<live, foreign_keys, encryption, encryption_config, app_config, keyring,
          files, serving, app, last>>

\* The backup state of a PreftApp that has just been constructed, without
\* the history it loads. `handler` is the handler that waits in its file
\* dialog, `clock` the time of the last BackupEntry, and `log` every entry
\* of the history since it was loaded, evicted ones included.
NewApp ==
    [backup_history |-> <<>>, backup_in_progress |-> FALSE, backup_status |-> "",
     handler |-> "", clock |-> 0, log |-> <<>>]

\* The record of an operation: its name, whether it returned Ok, the step it
\* failed at, and the arguments the properties refer to.
Op(op, ok, step) ==
    [op |-> op, ok |-> ok, step |-> step, id |-> 0, path |-> 0,
     password |-> "", force |-> FALSE, encrypted |-> FALSE]

(***************************************************************************)
(* Actions: one per operation, each the whole handler.                     *)
(***************************************************************************)
Running == serving # "none"

\* PreftApp::new on the store file; a new process holds no cipher, and the
\* store handle and the application each load the config from the vault.
Startup ==
    /\ serving = "none"
    /\ LET o == OpenStore(live) IN
         /\ live' = o.tables
         /\ serving' = o.serving
         /\ last' = Op("startup", o.serving = "full", o.step)
    /\ encryption' = NoCipher
    /\ encryption_config' = Load(keyring).config
    /\ app_config' = Load(keyring).config
    /\ app' = [NewApp EXCEPT !.backup_history = LoadedHistory(OpenStore(live).tables, NoCipher),
                             !.log = LoadedHistory(OpenStore(live).tables, NoCipher),
                             !.clock = app.clock]
    /\ UNCHANGED <<foreign_keys, keyring, files>>

\* The process exits; the automatic backup of on_exit is disabled, as it is
\* by default. An in-memory database ends with the process, and the store
\* file that could not be opened is what the next start-up finds.
Shutdown ==
    /\ Running
    /\ serving' = "none"
    /\ live' = IF serving = "memory" THEN CorruptStore ELSE live
    /\ encryption' = NoCipher
    /\ last' = Op("shutdown", TRUE, "")
    /\ UNCHANGED <<foreign_keys, encryption_config, app_config, keyring, files, app>>

\* A store handler that changes the live tables only.
StoreStep(op, id, outcome) ==
    /\ Running
    /\ live' = outcome.tables
    /\ last' = [Op(op, outcome.ok, outcome.step) EXCEPT !.id = id]
    /\ UNCHANGED <<foreign_keys, encryption, encryption_config, app_config, keyring,
                   files, serving, app>>

DoSaveFlow(row) == StoreStep("save_flow", row.id, SaveFlow(live, foreign_keys, row))
DoDeleteFlow(id) == StoreStep("delete_flow", id, DeleteFlow(live, id))
DoDeleteCategory(id) ==
    StoreStep("delete_category", id, AppDeleteCategory(live, foreign_keys, id))
DoSaveCategory(row) == StoreStep("save_category", row.id, SaveCategory(live, row))
DoSaveUserSettings(settings) ==
    StoreStep("save_user_settings", 0, SaveUserSettings(live, encryption, settings))

\* Database::initialize_encryption with a fresh salt.
DoInitializeEncryption(password, salt, fault) ==
    /\ Running
    /\ LET r == InitializeEncryption(encryption_config, encryption, keyring,
                                     password, salt, fault) IN
         /\ encryption_config' = r.config
         /\ encryption' = r.cipher
         /\ keyring' = r.vault
         /\ last' = [Op("initialize_encryption", r.ok, r.step) EXCEPT !.password = password]
    /\ UNCHANGED <<live, foreign_keys, app_config, files, serving, app>>

\* Database::set_encryption_state.
DoSetEncryptionState(enabled, password, salt) ==
    /\ Running
    /\ encryption' = SetEncryptionState(enabled, password, salt)
    /\ last' = [Op("set_encryption_state", TRUE, "") EXCEPT !.password = password]
    /\ UNCHANGED <<live, foreign_keys, encryption_config, app_config, keyring,
                   files, serving, app>>

\* Database::backup_to_file.
DoBackup(path, encrypted_backup) ==
    /\ Running
    /\ LET r == BackupToFile(live, encryption, encryption_config, foreign_keys,
                             files[path], encrypted_backup) IN
         /\ files' = [files EXCEPT ![path] = r.file]
         /\ last' = [Op("backup", r.ok, "") EXCEPT !.path = path,
                                                  !.encrypted = encrypted_backup]
    /\ UNCHANGED <<live, foreign_keys, encryption, encryption_config, app_config,
                   keyring, serving, app>>

\* Database::restore_from_file. The layers of a payload are bounded.
DoRestore(path, password, force, fault) ==
    /\ Running
    /\ Len(files[path].tables.user_settings.layers) < MaxLayers
    /\ LET r == RestoreFromFile(live, encryption, encryption_config, foreign_keys,
                                files[path], password, force, fault) IN
         /\ live' = r.tables
         /\ foreign_keys' = ForeignKeysAfterRestore(foreign_keys,
                ~(DetectEncryptedBackup(files[path]) /\ password # ""), r)
         /\ last' = [Op("restore", r.ok, r.step) EXCEPT !.path = path,
                        !.password = password, !.force = force]
    /\ files' = [files EXCEPT ![path] = RestoredFile(files[path])]
    /\ UNCHANGED <<encryption, encryption_config, app_config, keyring, serving, app>>

\* A create_backup or restore_backup that starts without the guard.
BeginBackupOperationUnguarded(handler) ==
    /\ Running
    /\ app' = [app EXCEPT !.backup_in_progress = TRUE, !.handler = handler,
                  !.backup_status = IF handler = "create_backup"
                                    THEN "Selecting backup location..."
                                    ELSE "Selecting backup file..."]
    /\ last' = Op(handler, TRUE, "dialog")
    /\ UNCHANGED <<live, foreign_keys, encryption, encryption_config, app_config,
                   keyring, files, serving>>

\* create_backup and restore_backup up to their file dialog: a return when an
\* operation is in progress, else the flag and the status are set and the
\* handler waits for the user's choice.
BeginBackupOperation(handler) ==
    /\ Running
    /\ IF app.backup_in_progress
       THEN /\ app' = app
            /\ last' = Op(handler, FALSE, "in_progress")
       ELSE /\ app' = [app EXCEPT !.backup_in_progress = TRUE, !.handler = handler,
                          !.backup_status = IF handler = "create_backup"
                                            THEN "Selecting backup location..."
                                            ELSE "Selecting backup file..."]
            /\ last' = Op(handler, TRUE, "dialog")
    /\ UNCHANGED <<live, foreign_keys, encryption, encryption_config, app_config,
                   keyring, files, serving>>

\* create_backup from the answer of the save dialog: 0 is a dialog that was
\* cancelled, else the path chosen. The backup is encrypted when the store
\* handle's config is ready; its outcome becomes a BackupEntry, the settings
\* are saved (an error of the save is only printed), and the flag is cleared.
CreateBackup(choice) ==
    /\ Running
    /\ app.backup_in_progress /\ app.handler = "create_backup"
    /\ IF choice = 0
       THEN /\ app' = [app EXCEPT !.backup_in_progress = FALSE, !.handler = "",
                                  !.backup_status = "Backup cancelled"]
            /\ last' = Op("create_backup", TRUE, "cancelled")
            /\ UNCHANGED <<live, files>>
       ELSE /\ app.clock < MaxEntries
            /\ LET r == BackupToFile(live, encryption, encryption_config, foreign_keys,
                                     files[choice], IsEncryptionReady(encryption_config))
                   entry == [timestamp |-> app.clock + 1, success |-> r.ok]
                   history == AddBackupEntry(app.backup_history, entry)
                   saved == SaveUserSettings(live, encryption,
                                             LoadUserSettings(live, encryption).settings)
               IN /\ files' = [files EXCEPT ![choice] = r.file]
                  /\ live' = IF saved.ok
                             THEN [saved.tables EXCEPT !.user_settings.backup_history = history]
                             ELSE live
                  /\ app' = [app EXCEPT !.backup_history = history,
                                !.log = Append(app.log, entry),
                                !.clock = app.clock + 1,
                                !.backup_in_progress = FALSE, !.handler = "",
                                !.backup_status = IF r.ok THEN "Backup completed successfully!"
                                                  ELSE "Backup failed"]
                  /\ last' = [Op("create_backup", r.ok, IF r.ok THEN "" ELSE "backup_to_file")
                                 EXCEPT !.path = choice]
    /\ UNCHANGED <<foreign_keys, encryption, encryption_config, app_config, keyring, serving>>

\* restore_backup from the answer of the open dialog: 0 is a dialog that was
\* cancelled, else the path of the file picked. A backup detected as
\* encrypted is refused while the application's config holds no password;
\* after a restore the settings are loaded again, the default ones when the
\* load fails.
RestoreBackup(choice) ==
    /\ Running
    /\ app.backup_in_progress /\ app.handler = "restore_backup"
    /\ IF choice = 0
       THEN /\ app' = [app EXCEPT !.backup_in_progress = FALSE, !.handler = "",
                                  !.backup_status = "Restore cancelled"]
            /\ last' = Op("restore_backup", TRUE, "cancelled")
            /\ UNCHANGED <<live, files, foreign_keys>>
       ELSE /\ files[choice].kind # "absent"
            /\ Len(files[choice].tables.user_settings.layers) < MaxLayers
            /\ LET detected == DetectEncryptedBackup(files[choice])
                   r == IF detected /\ ~IsEncryptionReady(app_config)
                        THEN Outcome(FALSE, "no_password", live)
                        ELSE RestoreFromFile(live, encryption, encryption_config,
                                             foreign_keys, files[choice], "", detected, "none")
               IN /\ live' = r.tables
                  /\ foreign_keys' = IF r.step = "no_password" THEN foreign_keys
                                     ELSE ForeignKeysAfterRestore(foreign_keys, TRUE, r)
                  /\ files' = [files EXCEPT ![choice] = RestoredFile(files[choice])]
                  /\ app' = [app EXCEPT
                                !.backup_history = IF r.ok THEN LoadedHistory(r.tables, encryption)
                                                   ELSE app.backup_history,
                                !.log = IF r.ok THEN LoadedHistory(r.tables, encryption)
                                        ELSE app.log,
                                !.backup_in_progress = FALSE, !.handler = "",
                                !.backup_status = IF r.ok THEN "Backup restored successfully!"
                                                  ELSE "Restore failed"]
                  /\ last' = [Op("restore_backup", r.ok, r.step) EXCEPT !.path = choice]
    /\ UNCHANGED <<encryption, encryption_config, app_config, keyring, serving>>

\* on_exit: create_automatic_backup, then the process ends. `enabled` and
\* `encrypted_backup` are the auto_backup settings; the file is named after
\* the time and so is new. A backup_to_file that fails returns before the
\* entry is made.
CreateAutomaticBackup(enabled, path, encrypted_backup) ==
    /\ Running
    /\ ~app.backup_in_progress
    /\ enabled => files[path].kind = "absent" /\ app.clock < MaxEntries
    /\ LET r == BackupToFile(live, encryption, encryption_config, foreign_keys,
                             files[path], encrypted_backup)
           entry == [timestamp |-> app.clock + 1, success |-> TRUE]
           history == AddBackupEntry(app.backup_history, entry)
           saved == SaveUserSettings(live, encryption,
                                     LoadUserSettings(live, encryption).settings)
           stored == IF saved.ok
                     THEN [saved.tables EXCEPT !.user_settings.backup_history = history]
                     ELSE live
       IN IF ~enabled
          THEN /\ UNCHANGED <<files, app>>
               /\ live' = IF serving = "memory" THEN CorruptStore ELSE live
               /\ last' = Op("create_automatic_backup", TRUE, "disabled")
          ELSE IF ~r.ok
          THEN /\ UNCHANGED app
               /\ files' = [files EXCEPT ![path] = r.file]
               /\ live' = IF serving = "memory" THEN CorruptStore ELSE live
               /\ last' = [Op("create_automatic_backup", FALSE, "backup_to_file")
                              EXCEPT !.path = path, !.encrypted = encrypted_backup]
          ELSE /\ files' = [files EXCEPT ![path] = r.file]
               /\ live' = IF serving = "memory" THEN CorruptStore ELSE stored
               /\ app' = [app EXCEPT !.backup_history = history,
                                     !.log = Append(app.log, entry),
                                     !.clock = app.clock + 1]
               /\ last' = [Op("create_automatic_backup", TRUE, "")
                              EXCEPT !.path = path, !.encrypted = encrypted_backup]
    /\ serving' = "none"
    /\ encryption' = NoCipher
    /\ UNCHANGED <<foreign_keys, encryption_config, app_config, keyring>>

(***************************************************************************)
(* The store in use: flows and categories edited, and restores from files  *)
(* the user holds, with statements of the restore failing.                 *)
(***************************************************************************)

\* The store files found at start-up: none, or one of an earlier version
\* with a category.
Cat1 == CategoryRow(1, "A", "Expense", FieldsJson(<<Field("fa", "Text")>>))
InstalledStores ==
    {EmptyDb, Tables("full", {Cat1}, {}, SettingsRow(<<>>, "s1"), <<>>)}

\* The files the user can restore from: a text file; a backup with a flow
\* whose custom_fields text does not parse; a database whose second flow
\* names a category it does not hold; a database without user_settings.
UserFiles ==
    { Garbage,
      External(Tables("full", {Cat1},
                      {FlowRow(1, 1, CustomJson({<<"fa", "Yes">>})), FlowRow(2, 1, BadCustom)},
                      SettingsRow(<<>>, "s2"), <<MigrationRecord>>)),
      External(Tables("full", {Cat1},
                      {FlowRow(1, 1, CustomJson({<<"fa", "Yes">>})),
                       FlowRow(2, 2, CustomJson({<<"fa", "Yes">>}))},
                      NoRow, <<MigrationRecord>>)),
      External(Tables("no_settings", {Cat1}, {FlowRow(1, 2, CustomJson({}))}, NoRow, <<>>)) }

\* The flows the user enters and the categories the editor saves.
EnteredFlows ==
    {FlowRow(id, c, CustomJson({<<"fa", "Yes">>})) : id \in FlowIds, c \in CatIds}
EditedCategories ==
    {CategoryRow(id, "B", "Expense", FieldsJson(<<Field("fa", t)>>)) :
        id \in CatIds, t \in {"Text", "Boolean"}}

Init ==
    /\ \E t \in InstalledStores :
          /\ live = OpenStore(t).tables
          /\ serving = OpenStore(t).serving
          /\ last = Op("startup", OpenStore(t).serving = "full", OpenStore(t).step)
    /\ foreign_keys \in BOOLEAN
    /\ encryption = NoCipher
    /\ encryption_config = DefaultConfig
    /\ app_config = DefaultConfig
    /\ keyring = DefaultConfig
    /\ app = NewApp
    /\ files \in [Paths -> UserFiles]

Next ==
    \/ \E row \in EnteredFlows : DoSaveFlow(row)
    \/ \E id \in FlowIds : DoDeleteFlow(id)
    \/ \E id \in CatIds : DoDeleteCategory(id)
    \/ \E row \in EditedCategories : DoSaveCategory(row)
    \/ DoInitializeEncryption("pw1", "saltA", "none")
    \/ \E path \in Paths, password \in {"", "pw1"}, force \in BOOLEAN :
          DoRestore(path, password, force, "none")
    \/ \E path \in Paths, fault \in RestoreFaults \ {"none"} :
          DoRestore(path, "", TRUE, fault)
    \/ \E exists \in BOOLEAN, n \in 0..MaxStatements :
          \E statements \in [1..n -> {"DELETE FROM flows", "COMMIT", "not sql"}] :
             StoreStep("restore_from_sql_file", 0,
                       RestoreFromSqlFile(live, exists, statements))

Spec == Init /\ [][Next]_vars

\* The same store, with a category at start-up, as the application drives
\* it: PreftApp::restore_backup passes no password, and the user holds one
\* file.
InitRestore ==
    /\ \E t \in InstalledStores \ {EmptyDb} :
          /\ live = OpenStore(t).tables
          /\ serving = OpenStore(t).serving
          /\ last = Op("startup", OpenStore(t).serving = "full", OpenStore(t).step)
    /\ foreign_keys \in BOOLEAN
    /\ encryption = NoCipher
    /\ encryption_config = DefaultConfig
    /\ app_config = DefaultConfig
    /\ keyring = DefaultConfig
    /\ app = NewApp
    /\ \E path \in Paths, file \in UserFiles : files = [NoFiles EXCEPT ![path] = file]

NextRestore ==
    \/ \E row \in EnteredFlows : DoSaveFlow(row)
    \/ \E id \in FlowIds : DoDeleteFlow(id)
    \/ \E id \in CatIds : DoDeleteCategory(id)
    \/ \E row \in EditedCategories : DoSaveCategory(row)
    \/ \E path \in Paths, force \in BOOLEAN : DoRestore(path, "", force, "none")
    \/ \E path \in Paths, fault \in RestoreFaults \ {"none"} :
          DoRestore(path, "", TRUE, fault)

SpecRestore == InitRestore /\ [][NextRestore]_vars

RestoreFailedIn(op, steps) == op.op = "restore" /\ ~op.ok /\ op.step \in Range(steps)

\* C1: restore atomicity. When the unencrypted restore fails at a statement
\* of its transaction (a clear, an insert, or the commit), the live tables
\* after the call are exactly the live tables before it.
C1_RestoreAtomicity ==
    [][ RestoreFailedIn(last', Tail(TransactionSteps)) => live' = live ]_vars

\* The flow loop failed on its second row, after the three clears, the
\* insert of the categories and the insert of the first flow; the live store
\* still holds flows, and categories other than the file's.
C1_Witness ==
    /\ RestoreFailedIn(last, <<"insert_flows">>)
    /\ Cardinality(files[last.path].tables.flows) = 2
    /\ live.flows # {}
    /\ live.categories # {}
    /\ live.categories # files[last.path].tables.categories

\* C2: every read of the source precedes the first change of the live
\* store: a restore that fails while reading the source leaves the live
\* tables unchanged.
C2_ReadsBeforeMutation ==
    [][ RestoreFailedIn(last', CollectSteps) => live' = live ]_vars

\* Reading the settings of a database file failed, after its categories and
\* flows had been read, and the live store still holds rows.
C2_Witness ==
    /\ RestoreFailedIn(last, <<"collect_settings">>)
    /\ files[last.path].kind = "db"
    /\ files[last.path].tables.categories # {}
    /\ live.categories # {}
    /\ live.flows # {}

\* C3: referential integrity. In every reachable state each stored flow's
\* category_id is the id of a stored category.
C3_ReferentialIntegrity ==
    \A f \in live.flows : f.category_id \in Ids(live.categories)

\* C28: save_flow upserts by id and round-trips. After a save_flow(f) that
\* returned Ok, load_flows returns exactly one flow with the id of f, equal
\* to f, and the stored rows of every other id are as before.
C28_SaveFlowRoundTrip ==
    [][ \A row \in EnteredFlows :
          (last'.op = "save_flow" /\ last'.ok /\ last'.id = row.id /\ DoSaveFlow(row)) =>
             /\ LoadFlows(live').ok
             /\ {f \in LoadFlows(live').rows : f.id = row.id}
                   = {[id |-> row.id, category_id |-> row.category_id,
                       custom_fields |-> row.custom_fields.map]}
             /\ {r \in live'.flows : r.id # row.id} = {r \in live.flows : r.id # row.id}
      ]_vars

\* C28, amended: after a save_flow(f) that returned Ok the stored rows of
\* every other id are as before and the stored row of f's id is the row of
\* f; load_flows then returns an error when another stored row does not
\* parse, and otherwise exactly one flow with the id of f, equal to f.
C28_SaveFlowRoundTripWhenLoadable ==
    [][ \A row \in EnteredFlows :
          (last'.op = "save_flow" /\ last'.ok /\ last'.id = row.id /\ DoSaveFlow(row)) =>
             /\ {r \in live'.flows : r.id # row.id} = {r \in live.flows : r.id # row.id}
             /\ {r \in live'.flows : r.id = row.id} = {row}
             /\ LoadFlows(live').ok <=> \A r \in live.flows : r.id = row.id \/ r.custom_fields.ok
             /\ LoadFlows(live').ok =>
                   {f \in LoadFlows(live').rows : f.id = row.id}
                      = {[id |-> row.id, category_id |-> row.category_id,
                          custom_fields |-> row.custom_fields.map]}
      ]_vars

\* A flow was saved next to a stored flow of another id, and load_flows
\* returns both.
C28_Witness ==
    /\ last.op = "save_flow" /\ last.ok
    /\ Cardinality(live.flows) = 2
    /\ LoadFlows(live).ok
    /\ Cardinality(LoadFlows(live).rows) = 2

\* C30: deleting a category cascades to its flows. After the application's
\* delete_category(id) has returned, the store holds neither a category with
\* that id nor a flow whose category_id is that id.
C30_DeleteCategoryCascades ==
    last.op = "delete_category" =>
       /\ last.id \notin Ids(live.categories)
       /\ \A f \in live.flows : f.category_id # last.id

\* C27: every transaction of a store operation ends with the operation, by
\* commit or by rollback, and no write of a transaction that was not
\* committed is seen afterwards. When save_category, the unencrypted restore
\* (at a statement of its transaction) or the restore from an SQL dump
\* returns an error, the live tables are those before the call.
C27_TransactionsEndWithOperation ==
    [][ (\/ last'.op \in {"save_category", "restore_from_sql_file"} /\ ~last'.ok
         \/ RestoreFailedIn(last', Tail(TransactionSteps))) =>
           live' = live ]_vars

\* C4: save_category is one transaction. When it fails, the stored
\* category row and every flow are as before the call; when it succeeds, the
\* new row is stored together with the migrated flows of the category, and
\* after a schema change those flows parse and carry only fields of the new
\* schema.
C4_SaveCategoryOneTransaction ==
    [][ last'.op = "save_category" =>
          /\ ~last'.ok => live' = live
          /\ last'.ok =>
               \E row \in EditedCategories :
                  /\ row.id = last'.id
                  /\ row.id \in Ids(live.categories)
                  /\ live'.categories = Upsert(live.categories, row)
                  /\ LET old == RowOf(live.categories, row.id).fields.list
                         new == row.fields.list
                     IN /\ live'.flows = MigrateFlowsToNewCategory(live.flows, old, row.id, new).flows
                        /\ HasSchemaChanges(old, new) =>
                              \A f \in live'.flows : f.category_id = row.id =>
                                 /\ f.custom_fields.ok
                                 /\ \A p \in f.custom_fields.map : p[1] \in FieldNamesOf(new)
                        /\ \A f \in live.flows : f.category_id # row.id => f \in live'.flows ]_vars

\* The flow migration failed on a flow whose custom_fields text does not
\* parse, after the row was replaced and an earlier flow rewritten: the stored
\* row is the old one and the earlier flow has its old value.
C4_Witness ==
    /\ last.op = "save_category" /\ ~last.ok /\ last.step = "migrate_flows"
    /\ \E c \in live.categories : c.id = last.id /\ c.name = "A"
    /\ \E f1, f2 \in live.flows :
          /\ f1.id < f2.id
          /\ f1.category_id = last.id /\ f2.category_id = last.id
          /\ f1.custom_fields = CustomJson({<<"fa", "Yes">>})
          /\ ~f2.custom_fields.ok

(***************************************************************************)
(* Backups and restores over sessions: the password is set, settings are   *)
(* saved, the application is closed and opened, backups are written to a   *)
(* path and read back.                                                     *)
(***************************************************************************)

\* The store files found at start-up: none, or one with a category, a flow
\* and saved settings.
BackupStores ==
    {EmptyDb,
     Tables("full", {Cat1}, {FlowRow(1, 1, CustomJson({<<"fa", "Yes">>}))},
            SettingsRow(<<>>, "s1"), <<MigrationRecord>>)}

InitBackup ==
    /\ \E t \in BackupStores :
          /\ live = OpenStore(t).tables
          /\ serving = OpenStore(t).serving
          /\ last = Op("startup", OpenStore(t).serving = "full", OpenStore(t).step)
    /\ foreign_keys \in BOOLEAN
    /\ encryption = NoCipher
    /\ encryption_config = DefaultConfig
    /\ app_config = DefaultConfig
    /\ keyring = DefaultConfig
    /\ app = NewApp
    /\ files = NoFiles

\* PreftApp::verify_password in a session that loaded the saved config: the
\* cipher is set from the password that verifies and the config's salt.
NextBackup ==
    \/ Startup
    \/ Shutdown
    \/ DoInitializeEncryption("pw1", "saltA", "none")
    \/ \E password \in Passwords :
          /\ ConfigVerifyPassword(app_config, password)
          /\ DoSetEncryptionState(TRUE, password, app_config.salt[1])
    \/ DoSetEncryptionState(FALSE, "", "")
    \/ \E settings \in SettingsValues : DoSaveUserSettings(settings)
    \/ \E id \in FlowIds : DoDeleteFlow(id)
    \/ \E id \in CatIds : DoDeleteCategory(id)
    \/ \E path \in Paths, encrypted_backup \in BOOLEAN : DoBackup(path, encrypted_backup)
    \/ \E path \in Paths, password \in {"", "pw1"}, force \in BOOLEAN :
          DoRestore(path, password, force, "none")

SpecBackup == InitBackup /\ [][NextBackup]_vars

\* C8: encrypted restore is the inverse of encrypted backup. After a
\* restore that returned Ok, called with the correct password and without
\* force on a file written by an encrypted backup under the cipher that is
\* still active, the live categories, flows and settings payload are those
\* of the store at backup time, and load_user_settings returns the settings
\* that were saved under that cipher.
C8_EncryptedRoundTrip ==
    LET file == files[last.path] IN
    ( /\ last.op = "restore" /\ last.ok /\ ~last.force
      /\ last.password # ""
      /\ ConfigVerifyPassword(encryption_config, last.password)
      /\ file.made_by = "backup_encrypted"
      /\ encryption # NoCipher
      /\ file.cipher = encryption
      /\ file.of.user_settings.layers = <<file.cipher>> )
    => /\ live.categories = file.of.categories
       /\ live.flows = file.of.flows
       /\ live.user_settings = file.of.user_settings
       /\ LoadUserSettings(live, encryption) =
             [ok |-> TRUE, settings |-> file.of.user_settings.json]

\* C9: unencrypted backup and restore round trip. After a forced restore
\* that returned Ok from a file written by an unencrypted backup of a store
\* without cipher and with a plain settings payload, the live categories and
\* flows are exactly the categories and flows of the store at backup time.
C9_UnencryptedRoundTrip ==
    LET file == files[last.path] IN
    ( /\ last.op = "restore" /\ last.ok /\ last.force
      /\ file.made_by = "backup_unencrypted"
      /\ file.cipher = NoCipher
      /\ file.of.user_settings.layers = <<>> )
    => /\ live.categories = file.of.categories
       /\ live.flows = file.of.flows

\* C10: an unencrypted backup holds plain settings. After a backup with
\* encrypted = false that returned Ok, of a store whose settings payload was
\* encrypted (under one layer), the payload in the backup file is plain text,
\* whatever cipher the store handle held.
C10_UnencryptedBackupDecrypts ==
    LET file == files[last.path] IN
    ( /\ last.op = "backup" /\ last.ok /\ ~last.encrypted
      /\ Len(file.of.user_settings.layers) = 1 )
    => file.tables.user_settings.layers = <<>>

\* C11: settings are encrypted at rest once encryption is configured. After
\* a save_user_settings that returned Ok in a state where is_encrypted() is
\* true (the config is encryption-ready), the stored payload is ciphertext;
\* a plain payload is stored only when encryption is not configured.
C11_SettingsEncryptedWhenConfigured ==
    (last.op = "save_user_settings" /\ last.ok /\ IsEncryptionReady(encryption_config))
    => live.user_settings.layers # <<>>

\* C12: load_user_settings never fails because of the stored payload. In
\* every state of a running application whose store has a settings row,
\* load_user_settings returns Ok, and it returns the default settings when
\* the payload does not decrypt under the handle's cipher.
C12_LoadFallsBackToDefaults ==
    (Running /\ live.schema = "full" /\ live.user_settings # NoRow) =>
        LET loaded == LoadUserSettings(live, encryption) IN
        /\ loaded.ok
        /\ ~DecryptDataOk(encryption, live.user_settings) =>
              loaded.settings = DefaultSettings

(***************************************************************************)
(* The checks that precede a backup or a restore: a store with encryption  *)
(* configured or not, one file of the user at one path, backups requested  *)
(* encrypted or not, restores with no, the right or a wrong password.      *)
(***************************************************************************)

\* The files a path can hold: none, a text file, a database without
\* user_settings, a database with all tables.
GateFiles ==
    { Absent, Garbage,
      External(Tables("no_settings", {CategoryRow(2, "C", "Income", BadFields)},
                      {}, NoRow, <<>>)),
      External(Tables("full", {CategoryRow(2, "C", "Income", BadFields)},
                      {}, SettingsRow(<<>>, "s2"), <<MigrationRecord>>)) }

InitGates ==
    /\ \E t \in BackupStores \ {EmptyDb} :
          /\ live = OpenStore(t).tables
          /\ serving = OpenStore(t).serving
          /\ last = Op("startup", OpenStore(t).serving = "full", OpenStore(t).step)
    /\ foreign_keys \in BOOLEAN
    /\ encryption = NoCipher
    /\ encryption_config = DefaultConfig
    /\ app_config = DefaultConfig
    /\ keyring = DefaultConfig
    /\ app = NewApp
    /\ \E path \in Paths, file \in GateFiles : files = [NoFiles EXCEPT ![path] = file]

NextGates ==
    \/ DoInitializeEncryption("pw1", "saltA", "none")
    \/ \E path \in Paths, encrypted_backup \in BOOLEAN : DoBackup(path, encrypted_backup)
    \/ \E path \in Paths, password \in {""} \cup Passwords, force \in BOOLEAN :
          DoRestore(path, password, force, "none")

SpecGates == InitGates /\ [][NextGates]_vars

\* C13: an encrypted backup of a store that is not encrypted is refused
\* before the target is touched. A backup with encrypted = true, called when
\* is_encrypted() is false, returns an error, and the file at the target
\* path (none, or the one already there) and the live store are unchanged.
C13_EncryptedBackupRefused ==
    [][ ( /\ last'.op = "backup" /\ last'.encrypted
          /\ ~IsEncryptionReady(encryption_config) )
        => /\ ~last'.ok
           /\ files' = files
           /\ live' = live ]_vars

\* The refused backup named a path that holds no file, and none is there
\* after the call.
C13_Witness ==
    /\ last.op = "backup" /\ last.encrypted /\ ~last.ok
    /\ ~IsEncryptionReady(encryption_config)
    /\ files[last.path].kind = "absent"

\* C14: a restore without password and without force from a source that is
\* detected as encrypted fails as "password required" and leaves the live
\* store unchanged; a restore from a path that holds no file fails at the
\* existence check, before the detection, and leaves the live store and the
\* files unchanged.
C14_RestoreRefusals ==
    [][ last'.op = "restore" =>
          /\ ( /\ files[last'.path].kind # "absent"
               /\ DetectEncryptedBackup(files[last'.path])
               /\ last'.password = "" /\ ~last'.force )
             => /\ ~last'.ok /\ last'.step = "password_required"
                /\ live' = live
          /\ files[last'.path].kind = "absent"
             => /\ ~last'.ok /\ last'.step = "exists"
                /\ live' = live
                /\ files' = files ]_vars

\* A restore without password from a database file that has no
\* user_settings table was refused, and the live store holds other rows than
\* the file.
C14_Witness ==
    /\ last.op = "restore" /\ ~last.ok /\ last.step = "password_required"
    /\ files[last.path].kind = "db"
    /\ files[last.path].tables.categories # live.categories
    /\ live.categories # {}

\* C15: on the encrypted restore path the password is verified against the
\* live config before the live store is overwritten. A restore with a
\* password from a source detected as encrypted, when the password does not
\* verify (it is wrong, or the config holds no hash), returns an error and
\* the live store is unchanged.
C15_PasswordVerifiedFirst ==
    [][ ( /\ last'.op = "restore" /\ last'.password # ""
          /\ files[last'.path].kind # "absent"
          /\ DetectEncryptedBackup(files[last'.path])
          /\ ~ConfigVerifyPassword(encryption_config, last'.password) )
        => /\ ~last'.ok /\ last'.step = "verify_password"
           /\ live' = live ]_vars

\* A wrong password was given, against a config that holds the hash of
\* another one, for a database file whose tables differ from the live ones.
C15_Witness ==
    /\ last.op = "restore" /\ ~last.ok /\ last.step = "verify_password"
    /\ last.password = "pw2"
    /\ encryption_config.password_hash = Some(HashPassword("pw1", "saltA"))
    /\ files[last.path].kind = "db"
    /\ files[last.path].tables.categories # live.categories

(***************************************************************************)
(* Start-up and the versioned migration: the store files of earlier        *)
(* versions, opened, edited and opened again.                              *)
(***************************************************************************)

\* The field lists a stored category of an earlier version can have, and a
\* row as a stored one.
LegacyFieldLists ==
    { <<Field("fa", "Text")>>, <<Field("fa", "Number")>>,
      <<Field("fa", "Number"), Field("fb", "Number")>> }
LegacyRows(id) ==
    {CategoryRow(id, "A", "Expense", FieldsJson(l)) : l \in LegacyFieldLists}
      \cup {CategoryRow(id, "A", "Expense", BadFields),
            CategoryRow(id, "A", "Transfer", FieldsJson(<<Field("fa", "Number")>>))}

\* Category tables: for each id no row or one of `rows[id]`.
RECURSIVE TablesOver(_, _)
TablesOver(ids, rows) ==
    IF ids = {} THEN {{}}
    ELSE LET id == CHOOSE x \in ids : TRUE
             rest == TablesOver(ids \ {id}, rows)
         IN rest \cup {t \cup {r} : t \in rest, r \in rows[id]}

\* The store files of earlier versions: such categories, no flows or a
\* well-formed flow and one whose custom_fields text does not parse.
LegacyStores ==
    {Tables("full", c, f, s, l) :
        c \in TablesOver(CatIds, [id \in CatIds |-> LegacyRows(id)]),
        f \in {{}, {FlowRow(1, 1, CustomJson({<<"fa", "Yes">>})), FlowRow(2, 1, BadCustom)}},
        s \in {NoRow, SettingsRow(<<>>, "s1")},
        l \in {<<>>, <<MigrationRecord>>}}

\* The categories the editor saves in this specification.
EditedRows ==
    {CategoryRow(id, "B", "Expense", FieldsJson(l)) :
        id \in CatIds, l \in {<<Field("fa", "Number")>>, <<Field("fa", "Float")>>}}

InitStartup ==
    /\ live \in LegacyStores \cup {CorruptStore}
    /\ foreign_keys \in BOOLEAN
    /\ encryption = NoCipher
    /\ encryption_config = DefaultConfig
    /\ app_config = DefaultConfig
    /\ keyring \in {DefaultConfig, ConfigSetPassword(DefaultConfig, "pw1", "saltA")}
                   \cup {[entry |-> e] : e \in {"no_entry", "unreadable", "unparsable", "no_vault"}}
    /\ app = NewApp
    /\ files = NoFiles
    /\ serving = "none"
    /\ last = Op("install", TRUE, "")

NextStartup ==
    \/ Startup
    \/ Shutdown
    \/ \E row \in EditedRows : DoSaveCategory(row)
    \/ \E id \in CatIds : DoDeleteCategory(id)

SpecStartup == InitStartup /\ [][NextStartup]_vars

\* C31: loading the encryption config never fails. With no entry in the
\* vault, and with an entry that cannot be read or cannot be parsed, load
\* returns the default config and no error; a saved config is returned.
C31_LoadNeverFails ==
    [][ Startup =>
          /\ Load(keyring).ok
          /\ "entry" \in DOMAIN keyring => Load(keyring).config = DefaultConfig ]_vars

\* C40: once the ledger records convert_number_to_float, no stored category
\* has a field of the legacy Number type: after the open with its seeding of
\* the default categories, after save_category and after a restore.
\* Stated of every step that starts in a store of which this is true.
C40_NoNumberFieldOnceRecorded ==
    [][ /\ MigrationApplied(live'.ledger)
        /\ MigrationApplied(live.ledger) =>
               \A r \in live.categories : r.fields.ok => ~HasNumberField(r.fields.list)
        => \A r \in live'.categories : r.fields.ok => ~HasNumberField(r.fields.list) ]_vars

\* How many rows of the ledger record the built-in migration.
LedgerRows(l) == Cardinality({i \in 1..Len(l) : l[i] = MigrationRecord})

\* The start-up that has just run reached run_migrations and got past it.
MigrationsReturnedOk(op) ==
    op.op = "startup" /\ op.step \notin {"initialize", "run_migrations"}
MigrationsFailed(op) == op.op = "startup" /\ op.step = "run_migrations"

\* C5: the versioned migration is idempotent. The ledger never holds more
\* than one row for (convert_number_to_float, 1); it holds exactly one after
\* a run that succeeded; and a run on a store whose ledger already records
\* the migration changes neither the ledger nor the stored categories.
C5_IdempotentMigration ==
    [][ /\ LedgerRows(live'.ledger) <= 1
        /\ MigrationsReturnedOk(last') => LedgerRows(live'.ledger) = 1
        /\ (last'.op = "startup" /\ MigrationApplied(live.ledger)) =>
              /\ live'.ledger = live.ledger
              /\ live'.categories = live.categories ]_vars

\* A second start-up ran on a store that still had a Number field, stored by
\* the editor after the ledger had recorded the migration.
C5_Witness ==
    /\ last.op = "startup"
    /\ last.step # "run_migrations"
    /\ LedgerRows(live.ledger) = 1
    /\ \E r \in live.categories : r.name = "B" /\ r.fields.ok /\ HasNumberField(r.fields.list)

\* C6: when the migration body or the validator fails, run_migrations
\* returns an error, the ledger gets no row and the stored categories are
\* those before the run; the ledger row appears only together with the
\* committed conversion of every category.
C6_FailedMigrationRollsBack ==
    [][ /\ MigrationsFailed(last') =>
              /\ live'.ledger = live.ledger
              /\ live'.categories = live.categories
        /\ live'.ledger # live.ledger =>
              /\ MigrationsReturnedOk(last')
              /\ live'.ledger = Append(live.ledger, MigrationRecord)
              /\ \A r \in live.categories : WellFormed(r)
              /\ live'.categories = ConvertNumberToFloat(live.categories).categories
              /\ \A r \in live'.categories : ~HasNumberField(r.fields.list) ]_vars

\* The body converted the first category and then failed on the second: the
\* first one still has its Number field after the failed run.
C6_Witness ==
    /\ MigrationsFailed(last)
    /\ live.ledger = <<>>
    /\ \E r1, r2 \in live.categories :
          /\ r1.id < r2.id
          /\ WellFormed(r1) /\ HasNumberField(r1.fields.list)
          /\ ~WellFormed(r2)

\* C7: a migration failure at start-up is fatal: after run_migrations has
\* failed during open, the application serves no store.
C7_MigrationFailureIsFatal == MigrationsFailed(last) => serving = "none"

\* C29: load_categories and load_flows return every stored row or an error,
\* never a partial list. When a stored row is malformed (unknown flow type,
\* unparsable fields or custom_fields) the load of its table returns an error;
\* otherwise it returns one value for each stored id, built from that row.
C29_LoadsAllOrError ==
    /\ IF \E r \in live.categories : ~WellFormed(r)
       THEN ~LoadCategories(live).ok
       ELSE LoadCategories(live).ok =>
               /\ Ids(LoadCategories(live).rows) = Ids(live.categories)
               /\ \A r \in live.categories :
                     \E c \in LoadCategories(live).rows :
                        /\ c.id = r.id /\ c.name = r.name /\ c.flow_type = r.flow_type
                        /\ FieldsJson(c.fields) = r.fields
    /\ IF \E r \in live.flows : ~r.custom_fields.ok
       THEN ~LoadFlows(live).ok
       ELSE LoadFlows(live).ok =>
               /\ Ids(LoadFlows(live).rows) = Ids(live.flows)
               /\ \A r \in live.flows :
                     FlowRow(r.id, r.category_id, CustomJson(RowOf(LoadFlows(live).rows, r.id).custom_fields)) = r

\* A running store holds a malformed category next to a well-formed one, and
\* a malformed flow next to a well-formed one: both loads fail.
C29_Witness ==
    /\ serving = "full"
    /\ \E r, q \in live.categories : ~WellFormed(r) /\ WellFormed(q)
    /\ \E r, q \in live.flows : ~r.custom_fields.ok /\ q.custom_fields.ok
    /\ ~LoadCategories(live).ok
    /\ ~LoadFlows(live).ok

C17_OpenSeedsDefaults ==
    [][ (last'.op = "startup" /\ live.schema # "corrupt") =>
          /\ live.categories = {} =>
                /\ last'.ok
                /\ live'.categories = Range(DefaultCategories)
          /\ (last'.ok /\ live.user_settings = NoRow) => live'.user_settings # NoRow
          /\ live.categories # {} => Ids(live'.categories) = Ids(live.categories)
          /\ live.user_settings # NoRow => live'.user_settings = live.user_settings ]_vars

\* C18: start-up always yields a usable store. The full open is served when
\* it succeeds, the minimal open only when the full one failed, the
\* in-memory database only when the minimal one failed too; and the store
\* served has the categories, flows and user_settings tables, so that
\* save_user_settings succeeds on it.
C18_StartupYieldsUsableStore ==
    [][ last'.op = "startup" =>
          /\ serving' \in {"full", "minimal", "memory"}
          /\ serving' = "full" <=> DatabaseNew(live).ok
          /\ serving' = "memory" => ~DatabaseNewMinimal(live).ok
          /\ live'.schema = "full"
          /\ SaveUserSettings(live', encryption', DefaultSettings).ok ]_vars

(***************************************************************************)
(* The encryption settings: the password is set, encryption is disabled    *)
(* and enabled again, the application is closed and opened, and the vault  *)
(* may refuse a save.                                                      *)
(***************************************************************************)

DisabledConfigStillEncrypted ==
    [enabled |-> FALSE, password_hash |-> NoneValue, salt |-> NoneValue,
     database_encrypted |-> TRUE]

\* The config after EncryptionConfig::disable_encryption. (After
\* re_enable_encryption it is equal to DefaultConfig.)
DisabledConfig ==
    [enabled |-> FALSE, password_hash |-> NoneValue, salt |-> NoneValue,
     database_encrypted |-> FALSE]

\* PreftApp::set_password: set_password on the application's config, with
\* its save to the vault, then initialize_encryption on the store handle.
AppSetPassword(password, app_salt, db_salt, app_fault, db_fault) ==
    /\ Running
    /\ app_config' = ConfigSetPassword(app_config, password, app_salt)
    /\ IF app_fault = "save"
       THEN /\ last' = [Op("set_password", FALSE, "app_save") EXCEPT !.password = password]
            /\ UNCHANGED <<encryption, encryption_config, keyring>>
       ELSE LET r == InitializeEncryption(encryption_config, encryption,
                        ConfigSetPassword(app_config, password, app_salt),
                        password, db_salt, db_fault) IN
            /\ encryption_config' = r.config
            /\ encryption' = r.cipher
            /\ keyring' = r.vault
            /\ last' = [Op("set_password", r.ok, r.step) EXCEPT !.password = password]
    /\ UNCHANGED <<live, foreign_keys, files, serving, app>>

\* PreftApp::disable_encryption and PreftApp::re_enable_encryption: the
\* application's config is reset to `config` and saved, then the cipher of the
\* store handle is dropped.
AppResetEncryption(op, config, fault) ==
    /\ Running
    /\ app_config' = config
    /\ IF fault = "save"
       THEN /\ last' = Op(op, FALSE, "app_save")
            /\ UNCHANGED <<encryption, keyring>>
       ELSE /\ keyring' = config
            /\ encryption' = SetEncryptionState(FALSE, "", "")
            /\ last' = Op(op, TRUE, "")
    /\ UNCHANGED <<live, foreign_keys, encryption_config, files, serving, app>>

InitVault ==
    /\ \E t \in BackupStores \ {EmptyDb} :
          /\ live = OpenStore(t).tables
          /\ serving = OpenStore(t).serving
          /\ last = Op("startup", OpenStore(t).serving = "full", OpenStore(t).step)
    /\ foreign_keys \in BOOLEAN
    /\ encryption = NoCipher
    /\ encryption_config = DefaultConfig
    /\ app_config = DefaultConfig
    /\ keyring = DefaultConfig
    /\ app = NewApp
    /\ files = NoFiles

NextVault ==
    \/ Startup
    \/ Shutdown
    \/ \E password \in Passwords, app_salt, db_salt \in Salts, app_fault, db_fault \in VaultFaults :
          /\ app_salt # db_salt
          /\ AppSetPassword(password, app_salt, db_salt, app_fault, db_fault)
    \/ \E fault \in VaultFaults : AppResetEncryption("disable_encryption", DisabledConfig, fault)
    \/ \E fault \in VaultFaults : AppResetEncryption("re_enable_encryption", DefaultConfig, fault)
    \/ \E password \in Passwords :
          /\ ConfigVerifyPassword(app_config, password)
          /\ DoSetEncryptionState(TRUE, password, app_config.salt[1])
    \/ \E password \in Passwords, salt \in Salts, fault \in VaultFaults :
          DoInitializeEncryption(password, salt, fault)

SpecVault == InitVault /\ [][NextVault]_vars

\* C38: the application's copy of the EncryptionConfig, the store handle's
\* copy and the vault entry agree after every password operation. After
\* set_password, change_password (which is set_password), disable_encryption
\* and re_enable_encryption return successfully, all three are equal, and
\* is_encrypted() of the store equals is_encryption_ready() of the
\* application.
C38_ConfigCopiesAgree ==
    [][ (/\ last'.op \in {"set_password", "disable_encryption", "re_enable_encryption"}
         /\ last'.ok) =>
          /\ app_config' = encryption_config'
          /\ encryption_config' = keyring'
          /\ IsEncryptionReady(encryption_config') = IsEncryptionReady(app_config') ]_vars

\* C39: stored settings stay decryptable across password operations.
\* Whenever the store handle holds a cipher, its key is the one derived from
\* the current password and the salt that the vault holds, which is the key
\* of a later session that loads the config from the vault and is given the
\* password the vault's hash verifies.
C39_CipherKeyMatchesVault ==
    encryption # NoCipher =>
       \E password \in Passwords :
          /\ ConfigVerifyPassword(keyring, password)
          /\ encryption = DeriveKey(password, keyring.salt[1])

\* C19: initialize_encryption is all-or-nothing. When it returns an error,
\* the config of the store handle, the vault entry and the cipher of the
\* handle are as they were before the call.
C19_InitializeEncryptionAllOrNothing ==
    [][ (last'.op = "initialize_encryption" /\ ~last'.ok) =>
          /\ encryption_config' = encryption_config
          /\ keyring' = keyring
          /\ encryption' = encryption ]_vars

\* C20: the invariant of EncryptionConfig. In every config that comes from
\* the default by set_password, disable_encryption and re_enable_encryption
\* (the application's, the store handle's and the saved one),
\* database_encrypted implies that hash and salt are present; and after
\* set_password(p) on the application's config, the config is
\* encryption-ready and database_encrypted, p verifies and no other password
\* does.
C20_ConfigInvariant ==
    /\ \A config \in {app_config, encryption_config, keyring} :
          config.database_encrypted =>
             config.password_hash # NoneValue /\ config.salt # NoneValue
    /\ last.op = "set_password" =>
          /\ IsEncryptionReady(app_config)
          /\ app_config.database_encrypted
          /\ \A q \in Passwords : ConfigVerifyPassword(app_config, q) <=> q = last.password

\* The password was set again, to another one, after an earlier set_password
\* had initialised the store handle under the first password.
C20_Witness ==
    /\ last.op = "set_password" /\ last.ok /\ last.password = "pw2"
    /\ ConfigVerifyPassword(app_config, "pw2")
    /\ ConfigVerifyPassword(encryption_config, "pw1")

\* C21: the password-verification hash is never the encryption key material.
\* For every password that a stored config verifies, the stored
\* password_hash does not decode to the key that DatabaseEncryption::new
\* derives from the same password and salt.
C21_HashIsNotKeyMaterial ==
    \A config \in {app_config, encryption_config, keyring} :
       \A p \in Passwords :
          ConfigVerifyPassword(config, p) =>
             Base64Decode(config.password_hash[1]) # DeriveKey(p, config.salt[1])

InitCipher ==
    /\ \E blob \in {SettingsRow(<<>>, "s1"), SettingsRow(<< <<"tampered">> >>, "s1"),
                     SettingsRow(<< <<"short">> >>, "s1")} :
          \E o \in {OpenStore(Tables("full", {Cat1}, {}, blob, <<MigrationRecord>>))} :
             /\ live = o.tables
             /\ serving = o.serving
             /\ last = Op("startup", o.serving = "full", o.step)
    /\ foreign_keys \in BOOLEAN
    /\ encryption = NoCipher
    /\ encryption_config = DefaultConfig
    /\ app_config = DefaultConfig
    /\ keyring = DefaultConfig
    /\ app = NewApp
    /\ files = NoFiles

NextCipher ==
    \/ \E password \in Passwords, salt \in Salts : DoSetEncryptionState(TRUE, password, salt)
    \/ DoSetEncryptionState(FALSE, "", "")
    \/ \E settings \in SettingsValues : DoSaveUserSettings(settings)
    \/ \E path \in Paths : DoBackup(path, FALSE)

SpecCipher == InitCipher /\ [][NextCipher]_vars

InitApp ==
    /\ LET o == OpenStore(Tables("full", {Cat1}, {}, SettingsRow(<<>>, "s1"), <<>>)) IN
         /\ live = o.tables
         /\ serving = o.serving
         /\ last = Op("startup", o.serving = "full", o.step)
    /\ foreign_keys \in BOOLEAN
    /\ encryption = NoCipher
    /\ encryption_config = DefaultConfig
    /\ app_config = DefaultConfig
    /\ keyring = DefaultConfig
    /\ app = NewApp
    /\ files \in {NoFiles, [p \in Paths |-> Garbage]}

NextApp ==
    \/ Startup
    \/ \E handler \in {"create_backup", "restore_backup"} : BeginBackupOperation(handler)
    \/ \E choice \in {0} \cup Paths : CreateBackup(choice)
    \/ \E choice \in {0} \cup Paths : RestoreBackup(choice)
    \/ \E enabled, encrypted_backup \in BOOLEAN, path \in Paths :
          CreateAutomaticBackup(enabled, path, encrypted_backup)

SpecApp == InitApp /\ [][NextApp]_vars

\* C24: the backup history is a ring buffer of the 10 most recent entries.
\* Whatever backups were recorded since the history was loaded, the history
\* has at most 10 entries and they are the last entries recorded, in the
\* order they were recorded; so each entry recorded beyond 10 has evicted
\* exactly the oldest one.
C24_HistoryIsRingBuffer ==
    /\ Len(app.backup_history) <= HistoryLimit
    /\ LET n == Len(app.log)
           first == IF n > HistoryLimit THEN n - HistoryLimit + 1 ELSE 1
       IN app.backup_history = SubSeq(app.log, first, n)

\* An eleventh and a twelfth entry have been recorded by create_backup and
\* the history holds the ten after the two that were evicted.
C24_Witness ==
    /\ last.op = "create_backup"
    /\ Len(app.log) = HistoryLimit + 2
    /\ Len(app.backup_history) = HistoryLimit
    /\ Head(app.backup_history) = app.log[3]

\* C25: every backup attempt that reaches backup_to_file, from create_backup
\* or from create_automatic_backup, appends exactly one BackupEntry whose
\* success flag is the outcome of the attempt, and the settings with the new
\* history are then stored.
C25_EveryAttemptRecorded ==
    [][ (/\ last'.op \in {"create_backup", "create_automatic_backup"}
         /\ last'.step \in {"", "backup_to_file"}
         /\ \/ \E choice \in Paths : CreateBackup(choice)
            \/ \E enabled, encrypted_backup \in BOOLEAN, path \in Paths :
                  CreateAutomaticBackup(enabled, path, encrypted_backup)) =>
          /\ app'.log = Append(app.log, [timestamp |-> app'.clock, success |-> last'.ok])
          /\ app'.backup_history # <<>>
          /\ app'.backup_history[Len(app'.backup_history)] =
                [timestamp |-> app'.clock, success |-> last'.ok]
          /\ live'.user_settings.backup_history = app'.backup_history ]_vars

\* C26: single in-flight guard. A create_backup or restore_backup that is
\* invoked while backup_in_progress is set, which it is while a handler
\* waits in its file dialog, changes neither the live store nor the backup
\* history, the status text or the flag.
C26_InFlightGuard ==
    [][ \A handler \in {"create_backup", "restore_backup"} :
          (app.backup_in_progress /\ BeginBackupOperation(handler)) =>
             /\ live' = live
             /\ app'.backup_history = app.backup_history
             /\ app'.backup_status = app.backup_status
             /\ app'.backup_in_progress = app.backup_in_progress ]_vars

\* restore_backup was invoked while create_backup waited in its dialog, and
\* returned at the guard.
C26_Witness ==
    /\ last = Op("restore_backup", FALSE, "in_progress")
    /\ app.backup_in_progress
    /\ app.handler = "create_backup"
    /\ app.backup_status = "Selecting backup location..."

(***************************************************************************)
(* The category editor (db.rs save_category with db/migrations.rs): the    *)
(* field list of a category with flows is edited again and again.          *)
(***************************************************************************)

\* A store with two categories and a flow in each; the first flow holds a
\* value of any kind in "fa".
InitSchema ==
    /\ \E va \in {"", " ", "42", "4.5", "$1,000", "Yes", "No", "maybe", "01/02/2024"},
          fb \in {{}, {<<"fb", "">>}, {<<"fb", "TRUE">>}} :
          LET o == OpenStore(Tables("full",
                      {CategoryRow(1, "A", "Expense",
                                   FieldsJson(<<Field("fa", "Text"), Field("fb", "Text")>>)),
                       CategoryRow(2, "C", "Income", FieldsJson(<<Field("fa", "Text")>>))},
                      {FlowRow(1, 1, CustomJson({<<"fa", va>>} \cup fb)),
                       FlowRow(2, 2, CustomJson({<<"fa", "maybe">>}))},
                      SettingsRow(<<>>, "s1"), <<MigrationRecord>>))
          IN /\ live = o.tables
             /\ serving = o.serving
             /\ last = Op("startup", o.serving = "full", o.step)
    /\ foreign_keys \in BOOLEAN
    /\ encryption = NoCipher
    /\ encryption_config = DefaultConfig
    /\ app_config = DefaultConfig
    /\ keyring = DefaultConfig
    /\ app = NewApp
    /\ files = NoFiles

\* The editor saves the first category under a name and a field list: no
\* field; "fa" of any type, required or not; "fa" and "fb" in either order;
\* or "fa" twice.
NextSchema ==
    \E name \in {"A", "B"} :
       \E list \in
             {<<>>, <<Field("fa", "Text"), Field("fa", "Boolean")>>}
             \cup {<<[Field("fa", ta) EXCEPT !.required = required]>> :
                      ta \in FieldTypes \ {"Select", "Number"}, required \in BOOLEAN}
             \cup {<<Field("fa", ta), Field("fb", tb)>> :
                      ta \in FieldTypes \ {"Select", "Number"}, tb \in {"Text", "Boolean"}}
             \cup {<<Field("fb", tb), Field("fa", ta)>> :
                      ta \in FieldTypes \ {"Select", "Number"}, tb \in {"Text", "Boolean"}} :
          /\ name = "B" => Len(list) = 1
          /\ DoSaveCategory(CategoryRow(1, name, "Expense", FieldsJson(list)))

SpecSchema == InitSchema /\ [][NextSchema]_vars

\* C32: has_schema_changes(old, new) is true exactly when the maps from
\* field name to field type of old and new differ: a field added, a field
\* removed, or a type changed, the options of a Select included. It is false
\* when only the name, the required flags or the order of the fields differ.
C32_SchemaChangesAreMapChanges ==
    [][ (last'.op = "save_category" /\ last'.ok) =>
          LET old == RowOf(live.categories, last'.id).fields.list
              new == RowOf(live'.categories, last'.id).fields.list
              old_map == {<<n, FieldTypeOf(old, n)>> : n \in FieldNamesOf(old)}
              new_map == {<<n, FieldTypeOf(new, n)>> : n \in FieldNamesOf(new)}
          IN HasSchemaChanges(old, new) <=> old_map # new_map ]_vars

\* The editor saved the list with "fb" before "fa" and "fa" a Select of two
\* options, and the flow of the category still holds both fields.
C32_Witness ==
    /\ last.op = "save_category" /\ last.ok
    /\ RowOf(live.categories, 1).fields.list =
          <<Field("fb", "Text"), Field("fa", "Select(a,b)")>>
    /\ RowOf(live.flows, 1).custom_fields.map = {<<"fa", "maybe">>, <<"fb", "TRUE">>}

\* C33: the frame of save_category(c). When has_schema_changes(old, c) is
\* false no flow of the store is modified; and whether or not the schema
\* changed and whether or not the save succeeded, the flows of the other
\* categories and the other category rows are as they were, no flow is added
\* or removed, and every flow keeps its id and its category.
C33_SaveCategoryFrame ==
    [][ last'.op = "save_category" =>
          /\ (/\ last'.ok
              /\ ~HasSchemaChanges(RowOf(live.categories, last'.id).fields.list,
                                   RowOf(live'.categories, last'.id).fields.list)) =>
                live'.flows = live.flows
          /\ \A f \in live.flows : f.category_id # last'.id => f \in live'.flows
          /\ \A r \in live.categories : r.id # last'.id => r \in live'.categories
          /\ Ids(live'.flows) = Ids(live.flows)
          /\ Ids(live'.categories) = Ids(live.categories)
          /\ \A f \in live.flows :
                RowOf(live'.flows, f.id).category_id = f.category_id ]_vars

\* A save that changed the schema has dropped "fa" from the flow of the
\* category saved, and the flow of the other category holds its "fa".
C33_Witness ==
    /\ last.op = "save_category" /\ last.ok /\ last.id = 1
    /\ "fa" \in FieldNamesOf(RowOf(live.categories, 1).fields.list)
    /\ RowOf(live.flows, 1).custom_fields.map = {}
    /\ RowOf(live.flows, 2).custom_fields.map = {<<"fa", "maybe">>}

\* C34 as stated: in a schema-changing save, a stored value other than the
\* empty string of a field that the new schema types Boolean becomes "true"
\* when it is one of true, 1, yes, y in any case, "false" when it is one of
\* false, 0, no, n in any case, and the field is dropped otherwise.
C34_BooleanCoercion ==
    [][ (last'.op = "save_category" /\ last'.ok) =>
          LET old == RowOf(live.categories, last'.id).fields.list
              new == RowOf(live'.categories, last'.id).fields.list
          IN HasSchemaChanges(old, new) =>
               \A f \in {g \in live.flows : g.category_id = last'.id} :
                 \A p \in f.custom_fields.map :
                   (/\ p[1] \in FieldNamesOf(new)
                    /\ FieldTypeOf(new, p[1]) = "Boolean"
                    /\ p[2] # "") =>
                      LET after == RowOf(live'.flows, f.id).custom_fields.map IN
                      IF p[2] \in {"true", "TRUE", "1", "yes", "Yes", "y", "Y"}
                      THEN <<p[1], "true">> \in after
                      ELSE IF p[2] \in {"false", "FALSE", "0", "no", "No", "n", "N"}
                      THEN <<p[1], "false">> \in after
                      ELSE \A q \in after : q[1] # p[1] ]_vars

\* C34, amended: the same of every stored value that is not blank, that is,
\* not empty once the white space around it is trimmed; a blank value of a
\* Boolean field stays as it is.
C34_BooleanCoercionOfNonBlank ==
    [][ (last'.op = "save_category" /\ last'.ok) =>
          LET old == RowOf(live.categories, last'.id).fields.list
              new == RowOf(live'.categories, last'.id).fields.list
          IN HasSchemaChanges(old, new) =>
               \A f \in {g \in live.flows : g.category_id = last'.id} :
                 \A p \in f.custom_fields.map :
                   (/\ p[1] \in FieldNamesOf(new)
                    /\ FieldTypeOf(new, p[1]) = "Boolean") =>
                      LET after == RowOf(live'.flows, f.id).custom_fields.map IN
                      IF IsBlank(p[2]) THEN p \in after
                      ELSE IF p[2] \in {"true", "TRUE", "1", "yes", "Yes", "y", "Y"}
                      THEN <<p[1], "true">> \in after
                      ELSE IF p[2] \in {"false", "FALSE", "0", "no", "No", "n", "N"}
                      THEN <<p[1], "false">> \in after
                      ELSE \A q \in after : q[1] # p[1] ]_vars

\* Both fields were typed Boolean: "fb" held TRUE and is "true", and "fa"
\* held maybe, 42 or another value that is no truth value and is gone.
C34_Witness ==
    /\ last.op = "save_category" /\ last.ok
    /\ FieldNamesOf(RowOf(live.categories, 1).fields.list) = {"fa", "fb"}
    /\ FieldTypeOf(RowOf(live.categories, 1).fields.list, "fa") = "Boolean"
    /\ FieldTypeOf(RowOf(live.categories, 1).fields.list, "fb") = "Boolean"
    /\ RowOf(live.flows, 1).custom_fields.map = {<<"fb", "true">>}

\* C35 as stated: a custom field whose stored value is the empty string is
\* neither coerced nor dropped by the schema-diff migration, whatever the new
\* schema says about the field.
C35_EmptyValuesUntouched ==
    [][ (last'.op = "save_category" /\ last'.ok) =>
          \A f \in {g \in live.flows : g.category_id = last'.id} :
             \A p \in f.custom_fields.map :
                p[2] = "" => p \in RowOf(live'.flows, f.id).custom_fields.map ]_vars

\* C35, amended: a custom field whose stored value is the empty string and
\* whose name the new schema has is neither coerced nor dropped, whatever
\* type the new schema gives it; a field that the new schema does not have
\* is dropped with the value it holds, the empty string included.
C35_EmptyValuesOfKeptFieldsUntouched ==
    [][ (last'.op = "save_category" /\ last'.ok) =>
          LET old == RowOf(live.categories, last'.id).fields.list
              new == RowOf(live'.categories, last'.id).fields.list
          IN \A f \in {g \in live.flows : g.category_id = last'.id} :
               \A p \in f.custom_fields.map :
                  p[2] = "" =>
                    LET after == RowOf(live'.flows, f.id).custom_fields.map IN
                    IF p[1] \in FieldNamesOf(new) \/ ~HasSchemaChanges(old, new)
                    THEN p \in after
                    ELSE \A q \in after : q[1] # p[1] ]_vars

\* "fa" was typed Integer and "fb" Boolean in one save: the 4.5 of "fa" was
\* coerced and the empty string of "fb" is as it was.
C35_Witness ==
    /\ last.op = "save_category" /\ last.ok
    /\ FieldNamesOf(RowOf(live.categories, 1).fields.list) = {"fa", "fb"}
    /\ FieldTypeOf(RowOf(live.categories, 1).fields.list, "fa") = "Integer"
    /\ FieldTypeOf(RowOf(live.categories, 1).fields.list, "fb") = "Boolean"
    /\ RowOf(live.flows, 1).custom_fields.map = {<<"fa", "4">>, <<"fb", "">>}

\* C36 as stated: after a schema-changing save_category(c) succeeds, the
\* keys of the custom fields of every flow of c are field names of the new
\* schema, and every remaining value other than the empty string of a field
\* typed Integer, Float, Currency, Boolean or Date is valid for the type, so
\* that the same migration applied a second time changes no flow.
C36_MigratedFlowsFitSchema ==
    [][ (last'.op = "save_category" /\ last'.ok) =>
          LET old == RowOf(live.categories, last'.id).fields.list
              new == RowOf(live'.categories, last'.id).fields.list
          IN HasSchemaChanges(old, new) =>
               \A f \in {g \in live'.flows : g.category_id = last'.id} :
                  /\ \A p \in f.custom_fields.map :
                        /\ p[1] \in FieldNamesOf(new)
                        /\ p[2] # "" =>
                             CASE FieldTypeOf(new, p[1]) = "Integer" -> ParsesAsInt(p[2])
                               [] FieldTypeOf(new, p[1]) = "Float" -> ParsesAsFloat(p[2])
                               [] FieldTypeOf(new, p[1]) = "Currency" -> ParsesAsFloat(p[2])
                               [] FieldTypeOf(new, p[1]) = "Boolean" -> p[2] \in {"true", "false"}
                               [] FieldTypeOf(new, p[1]) = "Date" -> IsIsoDate(p[2])
                               [] OTHER -> TRUE
                  /\ MigrateCustomFields(f.custom_fields.map, new).map = f.custom_fields.map ]_vars

\* C36, amended: the same of every remaining value that is not blank (not
\* empty after trimming white space); a blank value stays as it is under
\* any type.
C36_MigratedFlowsFitSchemaButBlanks ==
    [][ (last'.op = "save_category" /\ last'.ok) =>
          LET old == RowOf(live.categories, last'.id).fields.list
              new == RowOf(live'.categories, last'.id).fields.list
          IN HasSchemaChanges(old, new) =>
               \A f \in {g \in live'.flows : g.category_id = last'.id} :
                  /\ \A p \in f.custom_fields.map :
                        /\ p[1] \in FieldNamesOf(new)
                        /\ p[2] \notin {"", " "} =>
                             CASE FieldTypeOf(new, p[1]) = "Integer" -> ParsesAsInt(p[2])
                               [] FieldTypeOf(new, p[1]) = "Float" -> ParsesAsFloat(p[2])
                               [] FieldTypeOf(new, p[1]) = "Currency" -> ParsesAsFloat(p[2])
                               [] FieldTypeOf(new, p[1]) = "Boolean" -> p[2] \in {"true", "false"}
                               [] FieldTypeOf(new, p[1]) = "Date" -> IsIsoDate(p[2])
                               [] OTHER -> TRUE
                  /\ MigrateCustomFields(f.custom_fields.map, new).map = f.custom_fields.map
                  /\ \A p \in RowOf(live.flows, f.id).custom_fields.map :
                        (p[2] = " " /\ p[1] \in FieldNamesOf(new)) => p \in f.custom_fields.map ]_vars

\* The only field left is "fa", typed Currency, and the $1,000 that the
\* flow held is stored as 1000.
C36_Witness ==
    /\ last.op = "save_category" /\ last.ok
    /\ RowOf(live.categories, 1).fields.list = <<Field("fa", "Currency")>>
    /\ RowOf(live.flows, 1).custom_fields.map = {<<"fa", "1000">>}
====
